---- MODULE Spec2Model ----
(***************************************************************************)
(* Model of the bearnjs/rest router: path utilities, the route trie, the   *)
(* route table of RouterCore, the middleware manager, the route executor   *)
(* and the application-level error handling of BearnApp.                   *)
(*                                                                         *)
(* Strings of the program are sequences of one-character strings, so that  *)
(* slicing, prefix tests, splitting and joining are computed as the code   *)
(* computes them.                                                          *)
(***************************************************************************)
EXTENDS Integers, Sequences, FiniteSets, TLC

VARIABLES routers, lookup, ex, app

vars == <<routers, lookup, ex, app>>

-----------------------------------------------------------------------------
(* Generic helpers: maps (JS objects / Map) and strings (sequences).        *)

EmptyMap == [k \in {} |-> k]

MapPut(m, k, v) == [x \in (DOMAIN m) \cup {k} |-> IF x = k THEN v ELSE m[x]]

MapDelete(m, k) == [x \in (DOMAIN m) \ {k} |-> m[x]]

\* The value `undefined` of an optional string field.
undefined == <<"undefined">>

\* The absent Route (null / undefined where a Route is expected).
NoRoute == [none |-> TRUE]

startsWith(s, p) == Len(p) <= Len(s) /\ SubSeq(s, 1, Len(p)) = p

\* 1-based index of the first occurrence of character c in s, 0 if absent
\* (String.prototype.indexOf returns the 0-based index, -1 if absent).
IndexOf(s, c) ==
    IF \E i \in 1..Len(s) : s[i] = c
    THEN CHOOSE i \in 1..Len(s) : s[i] = c /\ \A j \in 1..(i - 1) : s[j] # c
    ELSE 0

includes(s, c) == IndexOf(s, c) # 0

\* s.slice(n) for 0 <= n.
sliceFrom(s, n) == SubSeq(s, n + 1, Len(s))

RECURSIVE split(_, _)
\* s.split(c): the pieces of s between occurrences of c, empty pieces kept.
split(s, c) ==
    LET i == IndexOf(s, c)
    IN  IF i = 0 THEN <<s>>
        ELSE <<SubSeq(s, 1, i - 1)>> \o split(SubSeq(s, i + 1, Len(s)), c)

RECURSIVE join(_, _)
\* segs.join(c)
join(segs, c) ==
    IF Len(segs) = 0 THEN <<>>
    ELSE IF Len(segs) = 1 THEN segs[1]
    ELSE segs[1] \o <<c>> \o join(Tail(segs), c)

-----------------------------------------------------------------------------
(* PathUtils                                                                *)

normalizePath(input) ==
    LET raw  == IF input = <<>> THEN <<"/">> ELSE input
        path == IF raw[1] = "/" THEN raw ELSE <<"/">> \o raw
    IN  IF Len(path) > 1 /\ path[Len(path)] = "/"
        THEN SubSeq(path, 1, Len(path) - 1)
        ELSE path

\* (req.url ?? '/').split('?')[0] ?? '/'
rawPathname(url) == split(url, "?")[1]

shouldHandleWithMountedRouter(mounted, pathname) ==
    \/ mounted.path = undefined
    \/ mounted.path = <<>>
    \/ mounted.path = <<"/">>
    \/ pathname = mounted.path
    \/ startsWith(pathname, mounted.path \o <<"/">>)

-----------------------------------------------------------------------------
(* The RegExp that addRoute compiles for a path containing ':'.             *)
(* The source is '^' + path.replace(/:([^/]+)/g, '([^/]+)') + '$'; every    *)
(* other character of the path goes into the pattern unescaped, so a '*'    *)
(* of the path is the quantifier of the atom before it.                     *)

RECURSIVE nonSlashRun(_, _)
\* Length of the maximal run of non-'/' characters of s starting at index i.
nonSlashRun(s, i) ==
    IF i > Len(s) \/ s[i] = "/" THEN 0 ELSE 1 + nonSlashRun(s, i + 1)

RECURSIVE paramNamesFrom(_, _)
\* The names pushed by the replace callback, scanning s from index i.
paramNamesFrom(s, i) ==
    IF i > Len(s) THEN <<>>
    ELSE IF s[i] = ":" /\ nonSlashRun(s, i + 1) > 0
         THEN LET n == nonSlashRun(s, i + 1)
              IN  <<SubSeq(s, i + 1, i + n)>> \o paramNamesFrom(s, i + n + 1)
         ELSE paramNamesFrom(s, i + 1)

paramNamesOf(path) == paramNamesFrom(path, 1)

RECURSIVE regexTokens(_, _)
\* The atoms of the compiled pattern: a literal character, or the group
\* ([^/]+); star marks an atom followed by the quantifier '*'.
regexTokens(s, i) ==
    IF i > Len(s) THEN <<>>
    ELSE IF s[i] = ":" /\ nonSlashRun(s, i + 1) > 0
         THEN <<[group |-> TRUE, c |-> "", star |-> FALSE]>>
              \o regexTokens(s, i + nonSlashRun(s, i + 1) + 1)
         ELSE IF i < Len(s) /\ s[i + 1] = "*"
              THEN <<[group |-> FALSE, c |-> s[i], star |-> TRUE]>>
                   \o regexTokens(s, i + 2)
              ELSE <<[group |-> FALSE, c |-> s[i], star |-> FALSE]>>
                   \o regexTokens(s, i + 1)

RECURSIVE regexMatch(_, _, _, _)
\* Does toks[i..] match exactly s[j..] (the pattern is anchored by ^ and $)?
regexMatch(toks, i, s, j) ==
    IF i > Len(toks) THEN j > Len(s)
    ELSE LET tok == toks[i]
         IN  IF tok.group
             THEN \E k \in j..Len(s) :
                     /\ \A x \in j..k : s[x] # "/"
                     /\ regexMatch(toks, i + 1, s, k + 1)
             ELSE IF tok.star
                  THEN \/ regexMatch(toks, i + 1, s, j)
                       \/ /\ j <= Len(s)
                          /\ s[j] = tok.c
                          /\ regexMatch(toks, i, s, j + 1)
                  ELSE /\ j <= Len(s)
                       /\ s[j] = tok.c
                       /\ regexMatch(toks, i + 1, s, j + 1)

\* route.regex?.test(s); route.regex holds the path it was compiled from.
regexTest(route, s) ==
    /\ route.regex # undefined
    /\ regexMatch(regexTokens(route.regex, 1), 1, s, 1)

-----------------------------------------------------------------------------
(* RouteTrie.  A trie is a function from node keys to nodes; the key of a   *)
(* node is the sequence of edges from the root, an edge being the static    *)
(* segment (children map), the parameter child or the wildcard child.       *)

HttpMethods == {"GET", "POST", "PUT", "DELETE", "PATCH", "HEAD", "OPTIONS"}

RootKey == <<>>

childEdge(segment) == <<"children", segment>>

paramEdge == <<"paramChild">>

wildcardEdge == <<"wildcardChild">>

createTrieNode(segment, isParam, paramName) ==
    [segment |-> segment, handlers |-> EmptyMap,
     isParam |-> isParam, paramName |-> paramName]

\* new RouteTrie(): a root node per HTTP method.
NewRouteTrie == [m \in HttpMethods |-> (RootKey :> createTrieNode(<<>>, FALSE, undefined))]

splitPath(path) ==
    IF path = <<"/">> THEN << <<>> >>
    ELSE SelectSeq(split(path, "/"), LAMBDA segment : segment # <<>>)

RECURSIVE insertWalk(_, _, _, _)
\* The loop of insertRoute from segment i on: the trie with the nodes it
\* created and the node where the walk ended.
insertWalk(t, current, segments, i) ==
    IF i > Len(segments) THEN [t |-> t, current |-> current]
    ELSE LET segment == segments[i]
         IN  IF segment = <<>> THEN insertWalk(t, current, segments, i + 1)
             ELSE IF segment[1] = ":"
             THEN LET k  == Append(current, paramEdge)
                      t2 == IF k \in DOMAIN t THEN t
                            ELSE t @@ (k :> createTrieNode(segment, TRUE, Tail(segment)))
                  IN  insertWalk(t2, k, segments, i + 1)
             ELSE IF segment = <<"*">>
             THEN LET k  == Append(current, wildcardEdge)
                      t2 == IF k \in DOMAIN t THEN t
                            ELSE t @@ (k :> createTrieNode(segment, TRUE, undefined))
                  IN  [t |-> t2, current |-> k]
             ELSE LET k  == Append(current, childEdge(segment))
                      t2 == IF k \in DOMAIN t THEN t
                            ELSE t @@ (k :> createTrieNode(segment, FALSE, undefined))
                  IN  insertWalk(t2, k, segments, i + 1)

insertRoute(trie, method, route) ==
    LET w == insertWalk(trie[method], RootKey, splitPath(route.path), 1)
        n == w.t[w.current]
    IN  [trie EXCEPT ![method] =
            [w.t EXCEPT ![w.current] =
                [n EXCEPT !.handlers = MapPut(n.handlers, method, route)]]]

handlersGet(node, method) ==
    IF method \in DOMAIN node.handlers THEN node.handlers[method] ELSE NoRoute

RECURSIVE search(_, _, _, _, _, _)
\* The inner function of searchRoute.  params is the object shared by all
\* the calls; the result carries it as the call leaves it, found or not.
search(t, method, segments, node, segmentIndex, params) ==
    IF segmentIndex > Len(segments)
    THEN [route |-> handlersGet(t[node], method), params |-> params]
    ELSE
    LET segment == segments[segmentIndex]
        sk == Append(node, childEdge(segment))
        pk == Append(node, paramEdge)
        wk == Append(node, wildcardEdge)
    IN  IF segment = <<>> THEN [route |-> NoRoute, params |-> params]
        ELSE
        LET r1 == IF sk \in DOMAIN t
                  THEN search(t, method, segments, sk, segmentIndex + 1, params)
                  ELSE [route |-> NoRoute, params |-> params]
        IN  IF r1.route # NoRoute THEN r1
            ELSE
            LET hasParam == /\ pk \in DOMAIN t
                            /\ t[pk].paramName # undefined
                            /\ t[pk].paramName # <<>>
                r2 == IF hasParam
                      THEN search(t, method, segments, pk, segmentIndex + 1,
                                  MapPut(r1.params, t[pk].paramName, segment))
                      ELSE [route |-> NoRoute, params |-> r1.params]
            IN  IF r2.route # NoRoute THEN r2
                ELSE
                LET p2 == IF hasParam THEN MapDelete(r2.params, t[pk].paramName)
                          ELSE r2.params
                IN  IF wk \in DOMAIN t
                    THEN [route  |-> handlersGet(t[wk], method),
                          params |-> MapPut(p2, <<"*">>,
                                        join(SubSeq(segments, segmentIndex, Len(segments)), "/"))]
                    ELSE [route |-> NoRoute, params |-> p2]

\* The null result of searchRoute.
NoMatch == [route |-> NoRoute, params |-> EmptyMap]

searchRoute(trie, method, path) ==
    LET r == search(trie[method], method, splitPath(path), RootKey, 1, EmptyMap)
    IN  IF r.route # NoRoute THEN r ELSE NoMatch

-----------------------------------------------------------------------------
(* RouterCore: registration.  A router is a record of the private fields;   *)
(* the variable routers maps each router object to its state, and a         *)
(* mounted router is referred to by its identity.                           *)

\* Key of the exact-match table: `${method}:${normalizedPath}`.
exactKey(method, path) == <<method, ":">> \o path

\* new RouterCore({ prefix }); prefix = undefined when no option is given.
NewRouterCore(prefix) ==
    [routes           |-> <<>>,
     mountedRouters   |-> <<>>,
     routeMap         |-> EmptyMap,
     trie             |-> NewRouteTrie,
     middlewares      |-> <<>>,
     middlewareCache  |-> EmptyMap,
     basePrefix       |-> IF prefix = undefined \/ prefix = <<>>
                          THEN undefined ELSE normalizePath(prefix)]

\* MiddlewareManager.addMiddleware
addMiddleware(router, middleware) ==
    [router EXCEPT !.middlewares = Append(@, middleware),
                   !.middlewareCache = EmptyMap]

\* RouterCore.addRoute
addRoute(router, method, path, handler, middlewares) ==
    LET localPath      == normalizePath(path)
        normalizedPath == IF router.basePrefix # undefined
                          THEN normalizePath(router.basePrefix \o localPath)
                          ELSE localPath
        route == [method      |-> method,
                  path        |-> normalizedPath,
                  handler     |-> handler,
                  middlewares |-> middlewares,
                  regex       |-> IF includes(normalizedPath, ":")
                                  THEN normalizedPath ELSE undefined,
                  paramNames  |-> IF includes(normalizedPath, ":")
                                  THEN paramNamesOf(normalizedPath) ELSE <<>>]
        key   == exactKey(method, normalizedPath)
        old   == IF key \in DOMAIN router.routeMap THEN router.routeMap[key] ELSE <<>>
    IN  [router EXCEPT !.routes   = Append(@, route),
                       !.routeMap = MapPut(@, key, Append(old, route)),
                       !.trie     = insertRoute(@, method, route)]

\* RouterCore.use(path, handler): path-scoped middleware.
usePathMiddleware(router, path, handler) ==
    LET normalized    == normalizePath(path)
        effectivePath == IF router.basePrefix # undefined
                         THEN normalizePath(router.basePrefix \o normalized)
                         ELSE normalized
    IN  addMiddleware(router, [path |-> effectivePath, handler |-> handler])

\* RouterCore.use(handler): global middleware.
useMiddleware(router, handler) ==
    addMiddleware(router, [path |-> undefined, handler |-> handler])

\* use(path, router) / use(router) mounting at the path as given, whatever
\* the base prefix of the router.
useRouterIgnoringPrefix(router, path, child) ==
    [router EXCEPT !.mountedRouters =
        Append(@, [path |-> IF path # undefined THEN normalizePath(path)
                            ELSE undefined,
                   router |-> child])]

\* RouterCore.use(path, router) and RouterCore.use(router): mounting;
\* path = undefined for the one-argument form.
useRouter(router, path, child) ==
    LET effectivePath ==
            IF path # undefined
            THEN LET normalized == normalizePath(path)
                 IN  IF router.basePrefix # undefined
                     THEN normalizePath(router.basePrefix \o normalized)
                     ELSE normalized
            ELSE router.basePrefix
    IN  [router EXCEPT !.mountedRouters =
            Append(@, [path |-> effectivePath, router |-> child])]

RECURSIVE getRoutes(_, _)
RECURSIVE mountedRoutesFrom(_, _, _)
\* The routes of the mounted routers listed with their own paths.
mountedRoutesFromUnprefixed(rs, mountedRouters, i) ==
    IF i > Len(mountedRouters) THEN <<>>
    ELSE getRoutes(rs, mountedRouters[i].router)
         \o mountedRoutesFrom(rs, mountedRouters, i + 1)

\* The routes contributed by the mounted routers from index i on.
mountedRoutesFrom(rs, mountedRouters, i) ==
    IF i > Len(mountedRouters) THEN <<>>
    ELSE LET mounted == mountedRouters[i]
             mountedRoutes == getRoutes(rs, mounted.router)
             prefixed == [j \in 1..Len(mountedRoutes) |->
                 LET route == mountedRoutes[j]
                     combined == IF mounted.path # undefined /\ mounted.path # <<>>
                                 THEN mounted.path \o route.path
                                 ELSE route.path
                 IN  [route EXCEPT !.path = normalizePath(combined)]]
         IN  prefixed \o mountedRoutesFrom(rs, mountedRouters, i + 1)

\* RouterCore.getRoutes of router r in the heap rs.
getRoutes(rs, r) ==
    rs[r].routes \o mountedRoutesFrom(rs, rs[r].mountedRouters, 1)

-----------------------------------------------------------------------------
(* RouterCore.executeRoute: the decision it takes for a method and a        *)
(* pathname, without the execution of the handler.                          *)

\* The local part: exact-match table first, then the trie.
resolveLocal(router, method, pathname) ==
    LET key == exactKey(method, pathname)
        exactRoutes == IF key \in DOMAIN router.routeMap
                       THEN router.routeMap[key] ELSE <<>>
    IN  IF Len(exactRoutes) > 0
        THEN [via |-> "exact", route |-> exactRoutes[1], params |-> EmptyMap]
        ELSE LET trieResult == searchRoute(router.trie, method, pathname)
             IN  IF trieResult.route # NoRoute
                 THEN [via |-> "trie", route |-> trieResult.route,
                       params |-> trieResult.params]
                 ELSE [via |-> "none", route |-> NoRoute, params |-> EmptyMap]

\* The path a router mounted at mountPath is given for pathname.
strippedPath(mountPath, pathname) ==
    LET adjustedPath == IF sliceFrom(pathname, Len(mountPath)) = <<>>
                        THEN <<"/">> ELSE sliceFrom(pathname, Len(mountPath))
    IN  normalizePath(adjustedPath)

\* The hasRoute test of the mounted-router scan.
hasRoute(rs, mounted, method, pathname) ==
    LET mountedRoutes == getRoutes(rs, mounted.router)
        finalPath     == strippedPath(mounted.path, pathname)
    IN  \E j \in 1..Len(mountedRoutes) :
            /\ mountedRoutes[j].method = method
            /\ \/ mountedRoutes[j].path = finalPath
               \/ regexTest(mountedRoutes[j], finalPath)

RECURSIVE mountedScan(_, _, _, _, _)
\* The for loop over mountedRouters from index i on: the index of the
\* mounted router the request is handed to, 0 when the loop ends without.
mountedScan(rs, r, method, pathname, i) ==
    IF i > Len(rs[r].mountedRouters) THEN 0
    ELSE LET mounted == rs[r].mountedRouters[i]
         IN  IF shouldHandleWithMountedRouter(mounted, pathname)
             THEN IF mounted.path = undefined \/ mounted.path = <<>>
                  THEN i
                  ELSE IF hasRoute(rs, mounted, method, pathname)
                       THEN i
                       ELSE mountedScan(rs, r, method, pathname, i + 1)
             ELSE mountedScan(rs, r, method, pathname, i + 1)

-----------------------------------------------------------------------------
(* Errors, promises and the response object.                                *)

NoError == [kind |-> "none", status |-> 0]

PlainError == [kind |-> "Error", status |-> 0]

\* new HttpException(status, message)
HttpException(status) == [kind |-> "HttpException", status |-> status]

\* The errors handlers and middleware raise.
Errors == {PlainError, HttpException(404)}

NoPromise == [st |-> "none", err |-> NoError]

Pending == [st |-> "pending", err |-> NoError]

Resolved == [st |-> "resolved", err |-> NoError]

Rejected(e) == [st |-> "rejected", err |-> e]

\* reject(e) / resolve() on a promise: a settled promise keeps its state.
reject(p, e) == IF p.st = "pending" THEN Rejected(e) ELSE p

resolve(p) == IF p.st = "pending" THEN Resolved ELSE p

NoResponseSent == [status |-> 0, body |-> ""]

\* enhanceResponse(res): nothing sent, statusCode 200.  sent is what the
\* client received, by names who finalized the response, ends counts the
\* calls of end().
NewResponse ==
    [headersSent |-> FALSE, statusCode |-> 200, sent |-> NoResponseSent,
     by |-> <<>>, ends |-> 0]

\* res.status(code)
resStatus(res, code) == [res EXCEPT !.statusCode = code]

\* res.send(body) / res.json(body): the first end() is what the client gets.
resSend(res, body, by) ==
    IF res.headersSent THEN [res EXCEPT !.ends = @ + 1]
    ELSE [res EXCEPT !.headersSent = TRUE,
                     !.sent = [status |-> res.statusCode, body |-> body],
                     !.by = by,
                     !.ends = @ + 1]

\* handleError that sets the status and forgets to send.
handleErrorWithoutSend(res) ==
    IF ~res.headersSent THEN resStatus(res, 500) ELSE res

\* MiddlewareManager.handleError
handleError(res) ==
    IF ~res.headersSent
    THEN resSend(resStatus(res, 500), "Internal Server Error", <<"handleError">>)
    ELSE res

\* The fallback sending 'Not Found' without setting the status.
notFoundWithoutStatus(res) == resSend(res, "Not Found", <<"notFound">>)

\* The 404 fallback of executeRoute.
notFound(res) == resSend(resStatus(res, 404), "Not Found", <<"notFound">>)

-----------------------------------------------------------------------------
(* State of the model.                                                      *)
(*   routers : the router objects (the application's router, a child and a  *)
(*             grandchild that can be mounted), each a RouterCore state;    *)
(*   lookup  : the last route resolution observed (executeRoute's choice);  *)
(*   ex      : the exchange in flight;                                      *)
(*   app     : the BearnApp fields (errorHandlers).                         *)

RouterIds == {"app", "child", "grand"}

NoLookup == [done |-> FALSE]

\* req as enhanceRequest leaves it, before a request has been received.
NoRequest ==
    [method |-> "", url |-> <<>>, path |-> <<>>, query |-> EmptyMap,
     params |-> EmptyMap, body |-> ""]

\* No exchange in flight.  pc is the position of the callback of start(),
\* next the call the running code is about to make (none when the stack
\* is empty), log the invocations and next() calls in order.
NoExchange ==
    [pc |-> "idle", req |-> NoRequest, res |-> NewResponse, frames |-> <<>>,
     next |-> "none", log |-> <<>>, err |-> NoError]

NewApp == [errorHandlers |-> <<>>, decoratorsRegistered |-> FALSE]

InitRouters == [r \in RouterIds |-> NewRouterCore(undefined)]

-----------------------------------------------------------------------------
(* Route table specification: routes are registered on one router and       *)
(* requests are resolved by the local part of executeRoute.                 *)

\* Largest number of routes registered on one router.
MaxRoutes == 3

\* Paths offered to the registration methods.
RoutePaths ==
    { <<"/">>,
      <<"/", "u", "/", "m">>,
      <<"/", "u", "/", ":", "i">>,
      <<"/", "u", "/", ":", "n", "/", "p">>,
      <<"/", "u", "/", "*">>,
      <<"/", "f", "/", "*">> }

\* Request paths, already normalized: literal paths, among them paths whose
\* segments read like a pattern (':i' and '*' are legal path characters).
RequestPaths ==
    { <<"/">>,
      <<"/", "u">>,
      <<"/", "u", "/", "m">>,
      <<"/", "u", "/", "x">>,
      <<"/", "u", "/", "m", "/", "p">>,
      <<"/", "u", "/", "x", "/", "p">>,
      <<"/", "u", "/", "x", "/", "z">>,
      <<"/", "u", "/", "*">>,
      <<"/", "u", "/", ":", "i">>,
      <<"/", "f">>,
      <<"/", "f", "/", "a">>,
      <<"/", "f", "/", "a", "/", "b">>,
      <<"/", "f", "/", "*">>,
      <<"/", "x">> }

RouteMethods == {"GET", "POST"}

InitLookup ==
    /\ routers = InitRouters
    /\ lookup = NoLookup
    /\ ex = NoExchange
    /\ app = NewApp

\* app.get(path, handler) / app.post(path, handler); the handler is named
\* after the position of the registration.
LookupAddRoute ==
    /\ Len(routers["app"].routes) < MaxRoutes
    /\ \E method \in RouteMethods, path \in RoutePaths :
          /\ method = "POST" => path = <<"/", "u", "/", ":", "i">>
          /\ routers' = [routers EXCEPT !["app"] =
                addRoute(@, method, path, Len(@.routes) + 1, <<>>)]
    /\ UNCHANGED <<ex, app>>
    /\ lookup' = NoLookup

\* executeRoute(req, res, method, pathname) up to the choice of the route.
LookupRequest ==
    /\ \E method \in RouteMethods, pathname \in RequestPaths :
          lookup' = [done |-> TRUE, method |-> method, path |-> pathname,
                     res |-> resolveLocal(routers["app"], method, pathname)]
    /\ UNCHANGED <<routers, ex, app>>

NextLookup == LookupAddRoute \/ LookupRequest

SpecLookup == InitLookup /\ [][NextLookup]_vars

-----------------------------------------------------------------------------
(* Reference semantics of route patterns, stated on segments and            *)
(* independent of the trie: what a pattern matches and which of two         *)
(* matching patterns has priority.                                          *)

segmentsOf(path) == SelectSeq(split(path, "/"), LAMBDA segment : segment # <<>>)

isParamSegment(segment) == segment # <<>> /\ segment[1] = ":"

isWildcardSegment(segment) == segment = <<"*">>

RECURSIVE patternMatchesFrom(_, _, _)
patternMatchesFrom(ps, qs, k) ==
    IF k > Len(ps) THEN Len(qs) = k - 1
    ELSE IF isWildcardSegment(ps[k]) THEN Len(qs) >= k
    ELSE IF k > Len(qs) THEN FALSE
    ELSE IF isParamSegment(ps[k]) THEN patternMatchesFrom(ps, qs, k + 1)
    ELSE ps[k] = qs[k] /\ patternMatchesFrom(ps, qs, k + 1)

\* Does the pattern match the request path?
patternMatches(pattern, path) ==
    patternMatchesFrom(segmentsOf(pattern), segmentsOf(path), 1)

\* 0 for a static segment, 1 for a parameter, 2 for the wildcard.
segmentRank(segment) ==
    IF isWildcardSegment(segment) THEN 2
    ELSE IF isParamSegment(segment) THEN 1 ELSE 0

\* Pattern a has priority over pattern b: at the first depth where their
\* kinds of segment differ, a has the preferred kind.
hasPriorityOver(a, b) ==
    LET as == segmentsOf(a)
        bs == segmentsOf(b)
    IN  \E k \in 1..Len(as) :
            /\ k <= Len(bs)
            /\ \A j \in 1..(k - 1) : segmentRank(as[j]) = segmentRank(bs[j])
            /\ \A j \in 1..(k - 1) : segmentRank(as[j]) # 2
            /\ segmentRank(as[k]) < segmentRank(bs[k])

\* The registered routes of the request's method whose pattern matches.
matchingRoutes(router, method, path) ==
    { i \in 1..Len(router.routes) :
        /\ router.routes[i].method = method
        /\ patternMatches(router.routes[i].path, path) }

hasWildcard(pattern) ==
    \E k \in 1..Len(segmentsOf(pattern)) : isWildcardSegment(segmentsOf(pattern)[k])

\* The request path has no segment that reads like a pattern.
plainRequest(path) ==
    \A k \in 1..Len(segmentsOf(path)) : segmentRank(segmentsOf(path)[k]) = 0

\* C7: for every registered route with `:name` segments and every request
\* path that substitutes a non-'/' string for each of them, the request
\* resolves to a route and params[name] is the substituted segment, for each
\* name of the route.  (Stated for the requests that no other registered
\* pattern matches, so that priority between patterns plays no part, and
\* for substituted strings that are plain text.)
C7_ParamsBoundToSubstitutedSegments ==
    (lookup.done /\ plainRequest(lookup.path)) =>
        \A i \in matchingRoutes(routers["app"], lookup.method, lookup.path) :
            LET route == routers["app"].routes[i]
                ps == segmentsOf(route.path)
                qs == segmentsOf(lookup.path)
            IN  ( /\ route.paramNames # <<>>
                  /\ ~hasWildcard(route.path)
                  /\ \A j \in matchingRoutes(routers["app"], lookup.method, lookup.path) :
                        routers["app"].routes[j].path = route.path )
                => /\ lookup.res.route # NoRoute
                   /\ \A k \in 1..Len(ps) :
                        isParamSegment(ps[k]) =>
                            /\ Tail(ps[k]) \in DOMAIN lookup.res.params
                            /\ lookup.res.params[Tail(ps[k])] = qs[k]

\* C8: route lookup returns the highest-priority match under the ordering
\* static segment > `:param` segment > `*` wildcard at each depth: it finds
\* a route exactly when some registered pattern matches, and no matching
\* registered pattern has priority over the pattern of the route it returns.
C8_LookupReturnsHighestPriorityMatch ==
    lookup.done =>
        LET M == matchingRoutes(routers["app"], lookup.method, lookup.path)
        IN  IF M = {} THEN lookup.res.route = NoRoute
            ELSE /\ lookup.res.route # NoRoute
                 /\ patternMatches(lookup.res.route.path, lookup.path)
                 /\ \A i \in M :
                      ~hasPriorityOver(routers["app"].routes[i].path,
                                       lookup.res.route.path)

\* C9: a route ending in `*` matches any request path sharing its prefix,
\* and binds params['*'] to the remaining segments joined by '/': such a
\* request resolves to a route, and when it resolves to the wildcard route
\* params['*'] is the remainder.
C9_WildcardBindsRemainder ==
    lookup.done =>
        \A i \in matchingRoutes(routers["app"], lookup.method, lookup.path) :
            LET route == routers["app"].routes[i]
                ps == segmentsOf(route.path)
                qs == segmentsOf(lookup.path)
            IN  (Len(ps) > 0 /\ isWildcardSegment(ps[Len(ps)]))
                => /\ lookup.res.route # NoRoute
                   /\ lookup.res.route.path = route.path =>
                        /\ <<"*">> \in DOMAIN lookup.res.params
                        /\ lookup.res.params[<<"*">>]
                             = join(SubSeq(qs, Len(ps), Len(qs)), "/")

-----------------------------------------------------------------------------
(* Mounting specification: routes are registered on the child and the       *)
(* grandchild, routers are mounted into each other, and the application's   *)
(* router decides where a request goes.                                     *)

\* Largest number of routes registered on a mounted router.
MaxMountedRoutes == 2

MountRoutePaths ==
    { <<"/", "p">>,
      <<"/", "p", "/", ":", "i">>,
      <<"/", "f", "/", "*">> }

\* Paths a router is mounted at; undefined is use(router).
MountPaths == { <<"/", "v">>, undefined }

MountRequestPaths ==
    { <<"/", "v">>,
      <<"/", "v", "/", "p">>,
      <<"/", "v", "/", "p", "x">>,
      <<"/", "v", "/", "p", "/", "7">>,
      <<"/", "v", "/", "f", "/", "a">>,
      <<"/", "v", "/", "v", "/", "p">>,
      <<"/", "v", "/", "v", "/", "p", "/", "7">>,
      <<"/", "p">> }

\* Routers are mounted along these pairs only, so that the mounts form a tree.
MountPairs == { <<"app", "child">>, <<"child", "grand">> }

isMounted(rs, parent, child) ==
    \E i \in 1..Len(rs[parent].mountedRouters) :
        rs[parent].mountedRouters[i].router = child

\* router.get(path, handler) on a router that is, or will be, mounted.
MountAddRoute ==
    /\ \E r \in {"child", "grand"}, path \in MountRoutePaths :
          /\ Len(routers[r].routes) < MaxMountedRoutes
          /\ routers' = [routers EXCEPT ![r] =
                addRoute(@, "GET", path, <<r, Len(@.routes) + 1>>, <<>>)]
    /\ UNCHANGED <<ex, app>>
    /\ lookup' = NoLookup

\* parent.use(path, child) / parent.use(child)
MountUseRouter ==
    /\ \E pair \in MountPairs, path \in MountPaths :
          /\ ~isMounted(routers, pair[1], pair[2])
          /\ routers' = [routers EXCEPT ![pair[1]] = useRouter(@, path, pair[2])]
    /\ UNCHANGED <<ex, app>>
    /\ lookup' = NoLookup

RECURSIVE resolves(_, _, _, _)
\* Does handle() of router r end in a route handler for method and pathname?
\* (The route executeRoute finds locally or, failing that, in the mounted
\* router it hands the request to.)
resolves(rs, r, method, pathname) ==
    \/ resolveLocal(rs[r], method, pathname).route # NoRoute
    \/ LET i == mountedScan(rs, r, method, pathname, 1)
       IN  /\ i # 0
           /\ LET mounted == rs[r].mountedRouters[i]
              IN  resolves(rs, mounted.router, method,
                           IF mounted.path = undefined \/ mounted.path = <<>>
                           THEN pathname
                           ELSE strippedPath(mounted.path, pathname))

\* executeRoute(req, res, method, pathname) on the application's router, up
\* to the choice of the route or of the mounted router.
MountRequest ==
    /\ \E method \in RouteMethods, pathname \in MountRequestPaths :
          lookup' = [done |-> TRUE, method |-> method, path |-> pathname,
                     res |-> resolveLocal(routers["app"], method, pathname),
                     mount |-> mountedScan(routers, "app", method, pathname, 1)]
    /\ UNCHANGED <<routers, ex, app>>

NextMount == MountAddRoute \/ MountUseRouter \/ MountRequest

SpecMount == InitLookup /\ [][NextMount]_vars

\* C10: when no local route matches, a child mounted under a prefix is
\* delegated to if and only if the request path equals the prefix or starts
\* with prefix + '/', and the child would itself resolve the prefix-stripped
\* path and method to a route; otherwise the request falls through to the
\* parent's own 404.
C10_DelegatesIffChildResolves ==
    (lookup.done /\ lookup.res.route = NoRoute) =>
        \A i \in 1..Len(routers["app"].mountedRouters) :
            LET mounted == routers["app"].mountedRouters[i]
            IN  mounted.path # undefined =>
                  ( lookup.mount = i
                    <=> /\ \/ lookup.path = mounted.path
                           \/ startsWith(lookup.path, mounted.path \o <<"/">>)
                        /\ resolves(routers, mounted.router, lookup.method,
                                    strippedPath(mounted.path, lookup.path)) )

-----------------------------------------------------------------------------
(* PathUtils.parseQuery, with decodeURIComponent computed on characters.    *)

hexValue(c) ==
    CASE c = "0" -> 0 [] c = "1" -> 1 [] c = "2" -> 2 [] c = "3" -> 3
      [] c = "4" -> 4 [] c = "5" -> 5 [] c = "6" -> 6 [] c = "7" -> 7
      [] c = "8" -> 8 [] c = "9" -> 9 [] c = "a" -> 10 [] c = "b" -> 11
      [] c = "c" -> 12 [] c = "d" -> 13 [] c = "e" -> 14 [] c = "f" -> 15
      [] OTHER -> 16

\* The character of an ASCII code (the codes the request URLs can spell).
asciiChar(n) ==
    CASE n = 37 -> "%" [] n = 38 -> "&" [] n = 47 -> "/" [] n = 49 -> "1"
      [] n = 61 -> "=" [] n = 63 -> "?" [] n = 65 -> "A" [] n = 97 -> "a"
      [] OTHER -> "."

RECURSIVE decodeFrom(_, _)
\* decodeURIComponent from index i on: ok = FALSE is the URIError thrown for
\* a '%' that is not followed by two hexadecimal digits of an ASCII code.
decodeFrom(s, i) ==
    IF i > Len(s) THEN [ok |-> TRUE, value |-> <<>>]
    ELSE IF s[i] # "%"
         THEN LET rest == decodeFrom(s, i + 1)
              IN  [ok |-> rest.ok, value |-> <<s[i]>> \o rest.value]
         ELSE IF i + 2 > Len(s) \/ hexValue(s[i + 1]) > 7 \/ hexValue(s[i + 2]) > 15
              THEN [ok |-> FALSE, value |-> <<>>]
              ELSE LET rest == decodeFrom(s, i + 3)
                   IN  [ok |-> rest.ok,
                        value |-> <<asciiChar(16 * hexValue(s[i + 1]) + hexValue(s[i + 2]))>>
                                  \o rest.value]

decodeURIComponent(s) == decodeFrom(s, 1)

RECURSIVE parseQueryPartsKeepFirst(_, _, _)
\* The loop over parts keeping the first value of a key that occurs again.
parseQueryPartsKeepFirst(parts, i, params) ==
    IF i > Len(parts) THEN [ok |-> TRUE, value |-> params]
    ELSE LET part == parts[i]
             equalIndex == IndexOf(part, "=")
             key   == IF equalIndex = 0 THEN part ELSE SubSeq(part, 1, equalIndex - 1)
             value == IF equalIndex = 0 THEN <<>>
                      ELSE SubSeq(part, equalIndex + 1, Len(part))
             k == decodeURIComponent(key)
             v == decodeURIComponent(value)
         IN  IF key = <<>> THEN parseQueryPartsKeepFirst(parts, i + 1, params)
             ELSE IF ~k.ok \/ ~v.ok THEN [ok |-> FALSE, value |-> params]
             ELSE parseQueryPartsKeepFirst(parts, i + 1,
                      IF k.value \in DOMAIN params THEN params
                      ELSE MapPut(params, k.value, v.value))

RECURSIVE parseQueryParts(_, _, _)
\* The loop over parts from index i on, params being the object built so far.
parseQueryParts(parts, i, params) ==
    IF i > Len(parts) THEN [ok |-> TRUE, value |-> params]
    ELSE LET part == parts[i]
             equalIndex == IndexOf(part, "=")
         IN  IF part = <<>> THEN parseQueryParts(parts, i + 1, params)
             ELSE IF equalIndex = 0
             THEN LET k == decodeURIComponent(part)
                  IN  IF ~k.ok THEN [ok |-> FALSE, value |-> params]
                      ELSE parseQueryParts(parts, i + 1, MapPut(params, k.value, <<>>))
             ELSE LET key   == SubSeq(part, 1, equalIndex - 1)
                      value == SubSeq(part, equalIndex + 1, Len(part))
                      k == decodeURIComponent(key)
                      v == decodeURIComponent(value)
                  IN  IF key = <<>> THEN parseQueryParts(parts, i + 1, params)
                      ELSE IF ~k.ok \/ ~v.ok THEN [ok |-> FALSE, value |-> params]
                      ELSE parseQueryParts(parts, i + 1, MapPut(params, k.value, v.value))

\* ok = FALSE when decodeURIComponent throws.
parseQuery(url) ==
    LET queryIndex == IndexOf(url, "?")
        queryString == SubSeq(url, queryIndex + 1, Len(url))
    IN  IF url = <<>> \/ queryIndex = 0 \/ queryString = <<>>
        THEN [ok |-> TRUE, value |-> EmptyMap]
        ELSE parseQueryParts(split(queryString, "&"), 1, EmptyMap)

-----------------------------------------------------------------------------
(* MiddlewareManager: the applicable middleware.                            *)

\* getApplicableMiddleware applying a path-scoped entry to its own path only.
getApplicableMiddlewareExactPath(router, pathname) ==
    LET kept == SelectSeq(router.middlewares,
                    LAMBDA middleware :
                        \/ middleware.path = undefined
                        \/ middleware.path = <<>>
                        \/ pathname = middleware.path)
        applicable == [i \in 1..Len(kept) |-> kept[i].handler]
    IN  [applicable |-> applicable,
         cache |-> MapPut(router.middlewareCache, pathname, applicable)]

\* getApplicableMiddleware with a cache that is not keyed by the pathname:
\* a list computed for one request is returned to every later one.
getApplicableMiddlewareUnkeyedCache(router, pathname) ==
    IF DOMAIN router.middlewareCache # {}
    THEN LET cachedFor == CHOOSE k \in DOMAIN router.middlewareCache : TRUE
         IN  [applicable |-> router.middlewareCache[cachedFor],
              cache |-> router.middlewareCache]
    ELSE LET kept == SelectSeq(router.middlewares,
                        LAMBDA middleware :
                            \/ middleware.path = undefined
                            \/ middleware.path = <<>>
                            \/ startsWith(pathname, middleware.path))
             applicable == [i \in 1..Len(kept) |-> kept[i].handler]
         IN  [applicable |-> applicable,
              cache |-> MapPut(router.middlewareCache, pathname, applicable)]

\* getApplicableMiddleware collecting the handlers last registered first.
getApplicableMiddlewareReversed(router, pathname) ==
    LET kept == SelectSeq(router.middlewares,
                    LAMBDA middleware :
                        \/ middleware.path = undefined
                        \/ middleware.path = <<>>
                        \/ startsWith(pathname, middleware.path))
        applicable == [i \in 1..Len(kept) |-> kept[Len(kept) + 1 - i].handler]
    IN  [applicable |-> applicable,
         cache |-> MapPut(router.middlewareCache, pathname, applicable)]

\* MiddlewareManager.getApplicableMiddleware: the handlers returned and the
\* cache as the call leaves it.
getApplicableMiddleware(router, pathname) ==
    IF pathname \in DOMAIN router.middlewareCache
    THEN [applicable |-> router.middlewareCache[pathname],
          cache |-> router.middlewareCache]
    ELSE LET kept == SelectSeq(router.middlewares,
                        LAMBDA middleware :
                            \/ middleware.path = undefined
                            \/ middleware.path = <<>>
                            \/ startsWith(pathname, middleware.path))
             applicable == [i \in 1..Len(kept) |-> kept[i].handler]
         IN  [applicable |-> applicable,
              cache |-> MapPut(router.middlewareCache, pathname, applicable)]

-----------------------------------------------------------------------------
(* One exchange.  frames is the stack of handle() calls in progress, the    *)
(* application's router first and each mounted router the request was       *)
(* handed to after it.  A call record describes one invocation of a         *)
(* middleware or handler: what it does (b), whether it has called next,     *)
(* the state of the value it returned and, for a global middleware, the     *)
(* promise P that runMiddleware created around it.                          *)

NoCall ==
    [id |-> <<>>, b |-> "none", call |-> "none", result |-> "none",
     err |-> NoError, P |-> NoPromise]

NewCall(id, b, err) ==
    [id |-> id, b |-> b, call |-> "none", result |-> "undefined",
     err |-> err, P |-> NoPromise]

\* The state of handle(req, res) of router r right after it called
\* executeMiddleware: A is the applicable middleware, g the global
\* middleware invoked so far, r the route middleware invoked so far, h the
\* route handler, Q the promise of routeHandler() and M the promise of
\* executeMiddleware.
NewFrame(r, pathname, applicable) ==
    [router |-> r, pathname |-> pathname, A |-> applicable, g |-> <<>>,
     stage |-> "mw", route |-> NoRoute, r |-> <<>>, h |-> NoCall,
     Q |-> NoPromise, M |-> Pending,
     saved |-> [path |-> undefined, url |-> undefined]]

RECURSIVE chainPromise(_, _, _)
\* The promise of the k-th global middleware once the microtasks have run:
\* after next() it follows runMiddleware() (the promise of the following
\* middleware, or Q after the last one) and then the value the middleware
\* returned.
chainPromise(g, k, Q) ==
    LET inner == IF k = Len(g) THEN Q ELSE chainPromise(g, k + 1, Q)
        c == g[k]
    IN  IF c.P.st # "pending" \/ c.call # "next" THEN c.P
        ELSE IF inner.st = "rejected" THEN inner
        ELSE IF inner.st = "resolved"
             THEN IF c.result = "rejected" THEN Rejected(c.err)
                  ELSE IF c.result = "pending" THEN Pending
                  ELSE Resolved
             ELSE Pending

\* One frame after the microtasks have run; childM is the promise of the
\* handle() call of the mounted router, if the request was handed to one.
settleFrame(f, res, childM) ==
    LET Q1 == IF f.stage = "mounted" /\ f.Q.st = "pending"
              THEN IF childM.st = "resolved" THEN Resolved
                   ELSE IF childM.st = "rejected" THEN childM ELSE f.Q
              ELSE f.Q
        g1 == [k \in 1..Len(f.g) |-> [f.g[k] EXCEPT !.P = chainPromise(f.g, k, Q1)]]
        first == IF Len(f.A) = 0 THEN Q1
                 ELSE IF Len(f.g) > 0 THEN g1[1].P ELSE NoPromise
        caught == f.M.st = "pending" /\ first.st = "rejected"
    IN  [frame |-> [f EXCEPT !.Q = Q1, !.g = g1,
                             !.M = IF f.M.st = "pending"
                                      /\ first.st \in {"resolved", "rejected"}
                                   THEN Resolved ELSE @],
         res |-> IF caught THEN handleError(res) ELSE res,
         restore |-> f.stage = "mounted" /\ f.Q.st = "pending" /\ Q1.st # "pending"]

RECURSIVE settleFrom(_, _, _, _)
\* The frames from the i-th down to the first after the microtasks have
\* run, the innermost handle() call first.
settleFrom(frames, i, res, req) ==
    IF i = 0 THEN [frames |-> frames, res |-> res, req |-> req]
    ELSE LET childM == IF i < Len(frames) THEN frames[i + 1].M ELSE NoPromise
             s == settleFrame(frames[i], res, childM)
             req1 == IF s.restore
                     THEN [req EXCEPT !.path = s.frame.saved.path,
                                      !.url = s.frame.saved.url]
                     ELSE req
         IN  settleFrom([frames EXCEPT ![i] = s.frame], i - 1, s.res, req1)

\* The exchange once the microtasks have run: the callback of start() is
\* done when handle() of the application's router has resolved.
settled(e) ==
    LET s == settleFrom(e.frames, Len(e.frames), e.res, e.req)
    IN  [e EXCEPT !.frames = s.frames, !.res = s.res, !.req = s.req,
                  !.pc = IF Len(s.frames) > 0 /\ s.frames[1].M.st = "resolved"
                         THEN "done" ELSE @]

-----------------------------------------------------------------------------
(* Exchange specification: the application registers middleware, routes     *)
(* and error handlers, and serves one request at a time; what a middleware  *)
(* or a handler does when it is invoked is chosen at the invocation.        *)

\* Largest number of global / path-scoped middleware registered.
MaxMiddlewares == 2

\* Largest number of middleware registered with one route.
MaxRouteMiddlewares == 2

\* Largest number of routes registered on the application.
MaxAppRoutes == 1

\* Largest number of onError handlers registered.
MaxErrorHandlers == 1

MiddlewarePaths == { undefined, <<"/", "a">> }

AppRoutePaths == { <<"/", "a">>, <<"/", "a", "/", ":", "i">> }

\* Request URLs: un-normalized, with a query, with a malformed escape.
RequestUrls ==
    { <<"/", "a">>,
      <<"/", "a", "/">>,
      <<"/", "a", "/", "7", "?", "k", "=", "1">>,
      <<"/", "x">>,
      <<"/", "a", "?", "%">> }

RequestMethods == {"GET", "POST"}

\* What a middleware does when invoked: call next(), call next(err), throw,
\* answer without calling next, answer and call next, do nothing, or (as an
\* async function) suspend and later call next() or reject.
\* Each calls next at most once.
MiddlewareBehaviours ==
    {"next", "nextErr", "throw", "send", "sendNext", "stall", "asyncNext", "asyncReject"}

\* What a route handler does when invoked: answer, answer and call next(),
\* throw, call next(err), or (as an async function) suspend and later
\* answer or reject.
HandlerBehaviours == {"send", "sendNext", "throw", "nextErr", "asyncSend", "asyncReject"}

raisesError(b) == b \in {"nextErr", "throw", "asyncReject"}

Init ==
    /\ routers = InitRouters
    /\ lookup = NoLookup
    /\ ex = NoExchange
    /\ app = NewApp

\* app.use(handler) / app.use(path, handler)
UseMiddleware ==
    /\ ex.pc = "idle"
    /\ Len(routers["app"].middlewares) < MaxMiddlewares
    /\ \E path \in MiddlewarePaths :
          LET id == <<"app", "g", Len(routers["app"].middlewares) + 1>>
          IN  routers' = [routers EXCEPT !["app"] =
                  IF path = undefined THEN useMiddleware(@, id)
                  ELSE usePathMiddleware(@, path, id)]
    /\ UNCHANGED <<lookup, ex, app>>

\* app.get(path, ...middlewares, handler)
AddRoute ==
    /\ ex.pc = "idle"
    /\ Len(routers["app"].routes) < MaxAppRoutes
    /\ \E path \in AppRoutePaths, n \in 0..MaxRouteMiddlewares :
          LET k == Len(routers["app"].routes) + 1
          IN  routers' = [routers EXCEPT !["app"] =
                  addRoute(@, "GET", path, <<"app", "h", k>>,
                           [j \in 1..n |-> <<"app", "m", k, j>>])]
    /\ UNCHANGED <<lookup, ex, app>>

\* BearnApp.onError(handler)
OnError ==
    /\ ex.pc = "idle"
    /\ Len(app.errorHandlers) < MaxErrorHandlers
    /\ app' = [app EXCEPT !.errorHandlers = Append(@, <<"onError", Len(@) + 1>>)]
    /\ UNCHANGED <<routers, lookup, ex>>

\* RouterCore.handle up to the call of executeMiddleware: ok = FALSE when
\* parseQuery throws, and handle() rejects with the URIError.
handleStart(rs, r, req) ==
    LET pathname == normalizePath(rawPathname(req.url))
        query == parseQuery(req.url)
        found == getApplicableMiddleware(rs[r], pathname)
    IN  IF ~query.ok
        THEN [ok |-> FALSE, rs |-> rs,
              req |-> [req EXCEPT !.path = pathname],
              frame |-> NewFrame(r, pathname, <<>>)]
        ELSE [ok |-> TRUE,
              rs |-> [rs EXCEPT ![r].middlewareCache = found.cache],
              req |-> [req EXCEPT !.path = pathname, !.query = query.value],
              frame |-> NewFrame(r, pathname, found.applicable)]

\* The callback of start() from the decoratorsRegistered test on: no
\* controller is decorated, so registerDecoratedControllers adds nothing.
EnterHandle(e) ==
    LET hs == handleStart(routers, "app", e.req)
    IN  /\ app' = [app EXCEPT !.decoratorsRegistered = TRUE]
        /\ IF hs.ok
           THEN /\ ex' = settled([e EXCEPT !.req = hs.req, !.frames = <<hs.frame>>,
                                           !.pc = "running", !.next = "runMiddleware"])
                /\ routers' = hs.rs
           ELSE /\ ex' = [e EXCEPT !.req = hs.req, !.pc = "globalError",
                                   !.err = PlainError]
                /\ routers' = routers

\* The request callback of createServer: enhanceRequest, enhanceResponse
\* and, for a method without body, the call of handle().
Receive ==
    /\ ex.pc = "idle"
    /\ \E method \in RequestMethods, url \in RequestUrls, body \in {"json", "malformed"} :
          LET e == [NoExchange EXCEPT
                      !.req = [NoRequest EXCEPT !.method = method, !.url = url,
                                                !.path = rawPathname(url),
                                                !.body = body]]
          IN  IF method \in {"POST", "PUT", "PATCH"}
              THEN /\ ex' = [e EXCEPT !.pc = "parseBody"]
                   /\ UNCHANGED <<routers, app>>
              ELSE /\ body = "json"
                   /\ EnterHandle(e)
    /\ UNCHANGED lookup

\* parseBody settles: JSON.parse throws on a malformed body and the callback
\* of start() goes to its catch; otherwise handle() is called.
ParseBody ==
    /\ ex.pc = "parseBody"
    /\ IF ex.req.body = "malformed"
       THEN /\ ex' = [ex EXCEPT !.pc = "globalError", !.err = PlainError]
            /\ UNCHANGED <<routers, app>>
       ELSE EnterHandle(ex)
    /\ UNCHANGED lookup

\* The record of an invocation when its synchronous part has returned.
returned(id, b, err) ==
    [NewCall(id, b, err) EXCEPT
        !.call = IF b \in {"next", "sendNext"} THEN "next"
                 ELSE IF b = "nextErr" THEN "err" ELSE "none",
        !.result = IF b = "throw" THEN "threw"
                   ELSE IF b \in {"asyncNext", "asyncReject", "asyncSend"}
                        THEN "pending" ELSE "undefined"]

\* The entries an invocation adds to the log.
logged(id, b) ==
    <<[e |-> "start", id |-> id]>>
    \o (IF b \in {"send", "sendNext"} THEN <<[e |-> "send", id |-> id]>> ELSE <<>>)
    \o (IF b \in {"next", "sendNext"} THEN <<[e |-> "next", id |-> id]>> ELSE <<>>)

\* The body a middleware or handler sends (its identity is in res.by).
bodyOf(id) == "ok"

\* runMiddleware(): the next applicable middleware is invoked inside
\* `new Promise((resolve, reject) => ...)`; next(err) and a throw reject
\* that promise.
InvokeGlobal ==
    /\ ex.pc = "running"
    /\ ex.next = "runMiddleware"
    /\ LET n == Len(ex.frames)
           f == ex.frames[n]
       IN  /\ f.stage = "mw"
           /\ Len(f.g) < Len(f.A)
           /\ \E b \in MiddlewareBehaviours, err \in Errors \cup {NoError} :
                 /\ (err # NoError) <=> raisesError(b)
                 /\ LET id == f.A[Len(f.g) + 1]
                        c == [returned(id, b, err) EXCEPT
                                !.P = IF b \in {"nextErr", "throw"}
                                      THEN reject(Pending, err) ELSE Pending]
                    IN  ex' = settled([ex EXCEPT
                            !.frames[n].g = Append(@, c),
                            !.res = IF b \in {"send", "sendNext"}
                                    THEN resSend(@, bodyOf(id), id) ELSE @,
                            !.next = IF c.call = "next" THEN "runMiddleware"
                                     ELSE "none",
                            !.log = @ \o logged(id, b)])
    /\ UNCHANGED <<routers, lookup, app>>

\* handleMountedRouter that hands the request to the child as it is.
mountedRequestUnstripped(mounted, req, pathname) == req

\* handleMountedRouter up to and including the call of mounted.router.handle:
\* the request as the child sees it.
mountedRequest(mounted, req, pathname) ==
    IF mounted.path = undefined \/ mounted.path = <<>> THEN req
    ELSE LET finalAdjusted == strippedPath(mounted.path, pathname)
         IN  [req EXCEPT
                !.path = finalAdjusted,
                !.url = finalAdjusted
                        \o (IF includes(req.url, "?")
                            THEN SubSeq(req.url, IndexOf(req.url, "?"), Len(req.url))
                            ELSE <<>>)]

\* routeHandler(), i.e. executeRoute: the exact-match table, the trie, the
\* mounted routers, the 404 fallback.
ExecuteRoute ==
    /\ ex.pc = "running"
    /\ ex.next = "runMiddleware"
    /\ LET n == Len(ex.frames)
           f == ex.frames[n]
           method == ex.req.method
           local == resolveLocal(routers[f.router], method, f.pathname)
           i == mountedScan(routers, f.router, method, f.pathname, 1)
       IN  /\ f.stage = "mw"
           /\ Len(f.g) = Len(f.A)
           /\ IF local.route # NoRoute
              THEN /\ ex' = settled([ex EXCEPT
                            !.frames[n] = [f EXCEPT !.stage = "route",
                                                    !.route = local.route,
                                                    !.Q = Pending],
                            !.req.params = local.params,
                            !.next = "runNext"])
                   /\ routers' = routers
              ELSE IF i # 0
              THEN LET mounted == routers[f.router].mountedRouters[i]
                       hs == handleStart(routers, mounted.router,
                                         mountedRequest(mounted, ex.req, f.pathname))
                       parent == [f EXCEPT !.stage = "mounted", !.Q = Pending,
                                           !.saved = [path |-> ex.req.path,
                                                      url |-> ex.req.url]]
                   IN  /\ ex' = settled([ex EXCEPT
                                !.frames = [@ EXCEPT ![n] = parent]
                                           \o <<[hs.frame EXCEPT !.M =
                                                   IF hs.ok THEN Pending
                                                   ELSE Rejected(PlainError)]>>,
                                !.req = hs.req,
                                !.next = IF hs.ok THEN "runMiddleware" ELSE "none"])
                       /\ routers' = hs.rs
              ELSE /\ ex' = settled([ex EXCEPT
                            !.frames[n] = [f EXCEPT !.stage = "notfound",
                                                    !.Q = Resolved],
                            !.res = notFound(@),
                            !.next = "none"])
                   /\ routers' = routers
    /\ UNCHANGED <<lookup, app>>

\* runNext() with middlewares left: the next route middleware is invoked;
\* a throw is caught and passed to runNext, which rejects the promise.
InvokeRouteMiddleware ==
    /\ ex.pc = "running"
    /\ ex.next = "runNext"
    /\ LET n == Len(ex.frames)
           f == ex.frames[n]
       IN  /\ f.stage = "route"
           /\ Len(f.r) < Len(f.route.middlewares)
           /\ \E b \in MiddlewareBehaviours, err \in Errors \cup {NoError} :
                 /\ (err # NoError) <=> raisesError(b)
                 /\ LET id == f.route.middlewares[Len(f.r) + 1]
                        c == returned(id, b, err)
                    IN  ex' = settled([ex EXCEPT
                            !.frames[n].r = Append(@, c),
                            !.frames[n].Q = IF b \in {"nextErr", "throw"}
                                            THEN reject(@, err) ELSE @,
                            !.res = IF b \in {"send", "sendNext"}
                                    THEN resSend(@, bodyOf(id), id) ELSE @,
                            !.next = IF c.call = "next" THEN "runNext" ELSE "none",
                            !.log = @ \o logged(id, b)])
    /\ UNCHANGED <<routers, lookup, app>>

\* executeHandler without the catch around the call of the handler: a
\* handler that throws counts as one that returned.
executeHandlerThrowResolves(Q, b, err) ==
    IF b = "nextErr" THEN reject(Q, err)
    ELSE IF b \in {"asyncSend", "asyncReject"} THEN Q
    ELSE resolve(Q)

\* The promise of executeHandler when the handler has returned: next(err)
\* and a throw reject it, next() resolves it, a thenable is followed and any
\* other return value resolves it.
executeHandler(Q, b, err) ==
    IF b \in {"nextErr", "throw"} THEN reject(Q, err)
    ELSE IF b = "sendNext" THEN resolve(Q)
    ELSE IF b \in {"asyncSend", "asyncReject"} THEN Q
    ELSE resolve(Q)

\* The promise of executeRouteWithMiddlewares when runNext has invoked the
\* handler after the last middleware and the handler has returned: as
\* executeHandler, but a return value that is no thenable settles nothing.
runNextHandler(Q, b, err) ==
    IF b \in {"nextErr", "throw"} THEN reject(Q, err)
    ELSE IF b = "sendNext" THEN resolve(Q)
    ELSE Q

\* The route handler is invoked: by executeHandler for a route without
\* middlewares, by runNext after the last middleware otherwise.
InvokeHandler ==
    /\ ex.pc = "running"
    /\ ex.next = "runNext"
    /\ LET n == Len(ex.frames)
           f == ex.frames[n]
       IN  /\ f.stage = "route"
           /\ Len(f.r) = Len(f.route.middlewares)
           /\ f.h = NoCall
           /\ \E b \in HandlerBehaviours, err \in Errors \cup {NoError} :
                 /\ (err # NoError) <=> raisesError(b)
                 /\ LET id == f.route.handler
                    IN  ex' = settled([ex EXCEPT
                            !.frames[n].h = returned(id, b, err),
                            !.frames[n].Q = IF Len(f.route.middlewares) = 0
                                            THEN executeHandler(@, b, err)
                                            ELSE runNextHandler(@, b, err),
                            !.res = IF b \in {"send", "sendNext"}
                                    THEN resSend(@, bodyOf(id), id) ELSE @,
                            !.next = "none",
                            !.log = @ \o logged(id, b)])
    /\ UNCHANGED <<routers, lookup, app>>

\* An async global middleware resumes: it calls next() and returns, or its
\* promise rejects.  Nothing is attached to that promise before next() has
\* been called.
ContinueGlobal ==
    /\ ex.pc = "running"
    /\ ex.next = "none"
    /\ \E n \in 1..Len(ex.frames) :
          \E k \in 1..Len(ex.frames[n].g) :
             LET c == ex.frames[n].g[k]
             IN  /\ c.result = "pending"
                 /\ IF c.b = "asyncNext"
                    THEN ex' = settled([ex EXCEPT
                            !.frames[n].g[k].call = "next",
                            !.frames[n].g[k].result = "resolved",
                            !.next = "runMiddleware",
                            !.log = Append(@, [e |-> "next", id |-> c.id])])
                    ELSE ex' = settled([ex EXCEPT
                            !.frames[n].g[k].result = "rejected"])
    /\ UNCHANGED <<routers, lookup, app>>

\* An async route middleware resumes: it calls runNext() and returns, or
\* its promise rejects and the catch attached by runNext calls runNext(e).
ContinueRouteMiddleware ==
    /\ ex.pc = "running"
    /\ ex.next = "none"
    /\ \E n \in 1..Len(ex.frames) :
          \E k \in 1..Len(ex.frames[n].r) :
             LET c == ex.frames[n].r[k]
             IN  /\ c.result = "pending"
                 /\ IF c.b = "asyncNext"
                    THEN ex' = settled([ex EXCEPT
                            !.frames[n].r[k].call = "next",
                            !.frames[n].r[k].result = "resolved",
                            !.next = "runNext",
                            !.log = Append(@, [e |-> "next", id |-> c.id])])
                    ELSE ex' = settled([ex EXCEPT
                            !.frames[n].r[k].result = "rejected",
                            !.frames[n].Q = reject(@, c.err)])
    /\ UNCHANGED <<routers, lookup, app>>

\* An async route handler resumes: it answers and its promise resolves, or
\* its promise rejects; then / catch settle the promise of the route.
ContinueHandler ==
    /\ ex.pc = "running"
    /\ ex.next = "none"
    /\ \E n \in 1..Len(ex.frames) :
          LET c == ex.frames[n].h
          IN  /\ c.result = "pending"
              /\ IF c.b = "asyncSend"
                 THEN ex' = settled([ex EXCEPT
                         !.frames[n].h.result = "resolved",
                         !.frames[n].Q = resolve(@),
                         !.res = resSend(@, bodyOf(c.id), c.id),
                         !.log = Append(@, [e |-> "send", id |-> c.id])])
                 ELSE ex' = settled([ex EXCEPT
                         !.frames[n].h.result = "rejected",
                         !.frames[n].Q = reject(@, c.err)])
    /\ UNCHANGED <<routers, lookup, app>>

\* BearnApp.handleGlobalError: the first n handlers throw; the next one, if
\* there is one, handles the error, otherwise the default answer is sent.
handleGlobalError(handlers, err, res, n) ==
    IF n < Len(handlers)
    THEN resSend(resStatus(res, 500), "handled", handlers[n + 1])
    ELSE IF res.headersSent THEN res
    ELSE IF err.kind = "HttpException"
         THEN resSend(resStatus(res, err.status), "payload", <<"handleGlobalError">>)
         ELSE resSend(resStatus(res, 500), "Internal Server Error",
                      <<"handleGlobalError">>)

\* The catch of the callback of start().
HandleGlobalError ==
    /\ ex.pc = "globalError"
    /\ \E n \in 0..Len(app.errorHandlers) :
          LET invoked == IF n < Len(app.errorHandlers) THEN n + 1 ELSE n
          IN  ex' = [ex EXCEPT
                  !.res = handleGlobalError(app.errorHandlers, ex.err, @, n),
                  !.log = @ \o [j \in 1..invoked |->
                                  [e |-> "onError", id |-> app.errorHandlers[j]]],
                  !.pc = "done"]
    /\ UNCHANGED <<routers, lookup, app>>

\* The exchange is over; the next request can be received.
Finish ==
    /\ ex.pc = "done"
    /\ ex' = NoExchange
    /\ UNCHANGED <<routers, lookup, app>>

Next ==
    \/ UseMiddleware
    \/ AddRoute
    \/ OnError
    \/ Receive
    \/ ParseBody
    \/ InvokeGlobal
    \/ ExecuteRoute
    \/ InvokeRouteMiddleware
    \/ InvokeHandler
    \/ ContinueGlobal
    \/ ContinueRouteMiddleware
    \/ ContinueHandler
    \/ HandleGlobalError
    \/ Finish

Spec == Init /\ [][Next]_vars

-----------------------------------------------------------------------------
(* Properties of one exchange.                                              *)

\* The calls made so far in frame f: global middleware, route middleware,
\* handler.
callsOf(f) == f.g \o f.r \o (IF f.h = NoCall THEN <<>> ELSE <<f.h>>)

raised(c) == c.call = "err" \/ c.result \in {"threw", "rejected"}

\* The identities of the handlers started so far, in the order of the log.
started ==
    LET starts == SelectSeq(ex.log, LAMBDA x : x.e = "start")
    IN  [i \in 1..Len(starts) |-> starts[i].id]

\* Nothing was sent by a middleware or a handler.
nothingSentByHandlers == \A i \in 1..Len(ex.log) : ex.log[i].e # "send"

\* What the registrations prescribe for the request of frame f: the
\* middleware registered without path or with a path that is a prefix of
\* the pathname, in registration order, then the middlewares of the matched
\* route, then its handler.
prescribedOrder(f) ==
    LET registered == SelectSeq(routers[f.router].middlewares,
                          LAMBDA m : \/ m.path = undefined
                                     \/ startsWith(f.pathname, m.path))
    IN  [i \in 1..Len(registered) |-> registered[i].handler]
        \o (IF f.route = NoRoute THEN <<>>
            ELSE f.route.middlewares \o <<f.route.handler>>)

\* C1: within one exchange the handlers run in the order: applicable global
\* middleware in registration order, then the matched route's middlewares in
\* registration order, then the route handler; and a handler is started
\* only after the one started before it has called next().
C1_StrictExecutionOrder ==
    Len(ex.frames) > 0 =>
        LET expected == prescribedOrder(ex.frames[1])
        IN  /\ Len(started) <= Len(expected)
            /\ started = SubSeq(expected, 1, Len(started))
            /\ \A p, q \in 1..Len(ex.log) :
                  (p < q /\ ex.log[p].e = "start" /\ ex.log[q].e = "start")
                  => \E m \in (p + 1)..(q - 1) :
                        ex.log[m] = [e |-> "next", id |-> ex.log[p].id]

\* Two global middleware, a route middleware and the handler have run.
C1_Witness ==
    /\ ex.pc = "done"
    /\ Len(ex.frames) = 1
    /\ Len(ex.frames[1].g) = 2
    /\ Len(ex.frames[1].r) >= 1
    /\ ex.frames[1].h # NoCall
    /\ Len(started) >= 4

\* C2: when a middleware or a handler raises an error and an onError
\* handler is registered, the exchange does not end without an onError
\* handler having been invoked.
C2_OnErrorHandlerInvoked ==
    (/\ ex.pc = "done"
     /\ Len(app.errorHandlers) > 0
     /\ \E n \in 1..Len(ex.frames) :
           \E k \in 1..Len(callsOf(ex.frames[n])) : raised(callsOf(ex.frames[n])[k]))
    => \E i \in 1..Len(ex.log) : ex.log[i].e = "onError"

\* C3: when a middleware or a handler throws an HttpException with status
\* S, no onError handler is registered and nothing was sent before, the
\* exchange ends with the response status S.
C3_HttpExceptionStatusReachesClient ==
    \A n \in 1..Len(ex.frames) :
       \A k \in 1..Len(callsOf(ex.frames[n])) :
          LET c == callsOf(ex.frames[n])[k]
          IN  (/\ ex.pc = "done"
               /\ app.errorHandlers = <<>>
               /\ c.result = "threw"
               /\ c.err.kind = "HttpException"
               /\ nothingSentByHandlers)
              => ex.res.sent.status = c.err.status

\* C4: when a global middleware calls next(error), no later middleware and
\* no route handler is run, and the response is 500 'Internal Server Error'
\* unless a response had been sent before.
C4_NextErrorAbortsChain ==
    \A n \in 1..Len(ex.frames) :
       \A k \in 1..Len(ex.frames[n].g) :
          LET f == ex.frames[n]
          IN  f.g[k].b = "nextErr"
              => /\ Len(f.g) = k
                 /\ f.stage = "mw"
                 /\ f.r = <<>>
                 /\ f.h = NoCall
                 /\ started[Len(started)] = f.g[k].id
                 /\ ex.res.headersSent
                 /\ nothingSentByHandlers
                    => /\ ex.res.sent = [status |-> 500,
                                         body |-> "Internal Server Error"]
                       /\ ex.res.ends = 1

\* A global middleware called next(error) in front of a second applicable
\* middleware and a matching route, and the client got the 500.
C4_Witness ==
    /\ Len(ex.frames) = 1
    /\ Len(ex.frames[1].A) = 2
    /\ Len(ex.frames[1].g) = 1
    /\ ex.frames[1].g[1].b = "nextErr"
    /\ resolveLocal(routers["app"], ex.req.method, ex.frames[1].pathname).route # NoRoute
    /\ ex.res.sent = [status |-> 500, body |-> "Internal Server Error"]

\* C5: when the future returned by a middleware or a handler has rejected,
\* nothing later has been started and the exchange is answered, with 500
\* 'Internal Server Error' unless a response had been sent before.
C5_RejectedFutureAbortsChain ==
    \A n \in 1..Len(ex.frames) :
       \A k \in 1..Len(callsOf(ex.frames[n])) :
          LET c == callsOf(ex.frames[n])[k]
          IN  c.result = "rejected"
              => /\ started[Len(started)] = c.id
                 /\ ex.res.headersSent
                 /\ nothingSentByHandlers
                    => ex.res.sent = [status |-> 500,
                                      body |-> "Internal Server Error"]

\* C6: once every middleware of the matched route has called next() and
\* the handler has returned (its future, if it returned one, resolved), the
\* promise of executeRouteWithMiddlewares is resolved, and with it handle().
C6_RoutePromiseResolves ==
    \A n \in 1..Len(ex.frames) :
       LET f == ex.frames[n]
       IN  (/\ f.stage = "route"
            /\ Len(f.r) = Len(f.route.middlewares)
            /\ \A k \in 1..Len(f.r) : f.r[k].call = "next"
            /\ f.h # NoCall
            /\ f.h.result \in {"undefined", "resolved"}
            /\ f.h.call # "err")
           => /\ f.Q.st = "resolved"
              /\ f.M.st = "resolved"

-----------------------------------------------------------------------------
(* Delegation specification: routers are mounted along app -> child ->      *)
(* grand, routes and middleware are registered on them, and one request is  *)
(* served by handle() of the application's router.                          *)

\* Largest number of routes registered on one router of the mount tree.
MaxDelegateRoutes == 1

\* Largest number of middleware registered with a route of the child.
MaxDelegateRouteMiddlewares == 1

\* Largest number of global middleware registered on the child.
MaxDelegateMiddlewares == 1

\* The paths routes are registered with: the child takes either, the
\* application and the grandchild the literal one.
DelegateRoutePaths == { <<"/", "p">>, <<"/", "p", "/", ":", "i">> }

DelegateUrls ==
    { <<"/", "p">>,
      <<"/", "v">>,
      <<"/", "v", "/", "p">>,
      <<"/", "v", "/", "p", "/">>,
      <<"/", "v", "/", "p", "/", "7", "?", "k", "=", "1">>,
      <<"/", "v", "/", "v", "/", "p">>,
      <<"/", "v", "/", "q">> }

DelegateMethods == {"GET", "DELETE"}

\* router.get(path, ...middlewares, handler)
DelegateAddRoute ==
    /\ ex.pc = "idle"
    /\ \E r \in RouterIds, path \in DelegateRoutePaths,
          n \in 0..MaxDelegateRouteMiddlewares :
          /\ Len(routers[r].routes) < MaxDelegateRoutes
          /\ r # "child" => (path = <<"/", "p">> /\ n = 0)
          /\ LET k == Len(routers[r].routes) + 1
             IN  routers' = [routers EXCEPT ![r] =
                     addRoute(@, "GET", path, <<r, "h", k>>,
                              [j \in 1..n |-> <<r, "m", k, j>>])]
    /\ UNCHANGED <<lookup, ex, app>>

\* child.use(handler)
DelegateUseMiddleware ==
    /\ ex.pc = "idle"
    /\ Len(routers["child"].middlewares) < MaxDelegateMiddlewares
    /\ routers' = [routers EXCEPT !["child"] =
            useMiddleware(@, <<"child", "g", Len(@.middlewares) + 1>>)]
    /\ UNCHANGED <<lookup, ex, app>>

\* parent.use(path, child) / parent.use(child)
DelegateUseRouter ==
    /\ ex.pc = "idle"
    /\ \E pair \in MountPairs, path \in MountPaths :
          /\ ~isMounted(routers, pair[1], pair[2])
          /\ routers' = [routers EXCEPT ![pair[1]] = useRouter(@, path, pair[2])]
    /\ UNCHANGED <<lookup, ex, app>>

\* The request callback for a request without body; the URL received is
\* the first entry of the log.
DelegateReceive ==
    /\ ex.pc = "idle"
    /\ \E method \in DelegateMethods, url \in DelegateUrls :
          EnterHandle([NoExchange EXCEPT
              !.req = [NoRequest EXCEPT !.method = method, !.url = url,
                                        !.path = rawPathname(url),
                                        !.body = "json"],
              !.log = <<[e |-> "receive", id |-> url]>>])
    /\ UNCHANGED lookup

NextDelegate ==
    \/ DelegateAddRoute
    \/ DelegateUseMiddleware
    \/ DelegateUseRouter
    \/ DelegateReceive
    \/ InvokeGlobal
    \/ ExecuteRoute
    \/ InvokeRouteMiddleware
    \/ InvokeHandler
    \/ ContinueGlobal
    \/ ContinueRouteMiddleware
    \/ ContinueHandler

SpecDelegate == Init /\ [][NextDelegate]_vars

\* The URL of the request as it was received.
receivedUrl == ex.log[1].id

\* The mounted-router entry through which frame n was entered (n > 1).
enteredThrough(n) ==
    LET parent == ex.frames[n - 1]
    IN  routers[parent.router].mountedRouters[
            mountedScan(routers, parent.router, ex.req.method, parent.pathname, 1)]

\* The '?' and what follows it in the URL received, if any.
receivedQuery ==
    IF includes(receivedUrl, "?")
    THEN SubSeq(receivedUrl, IndexOf(receivedUrl, "?"), Len(receivedUrl))
    ELSE <<>>

\* path is pathname with the prefix taken off its front ('/' when nothing
\* is left).
isStrippedOf(path, prefix, pathname) ==
    \/ pathname = prefix /\ path = <<"/">>
    \/ pathname # prefix /\ prefix \o path = pathname

\* The deepest handle() call that has not completed (the first, when all
\* have).
deepestPending ==
    LET pending == { n \in 1..Len(ex.frames) : ex.frames[n].M.st = "pending" }
    IN  IF pending = {} THEN 1
        ELSE CHOOSE n \in pending : \A m \in pending : m <= n

RECURSIVE seesRequestAt(_)
\* req.path and req.url are what the router of frame n is to see: the
\* application's router the request as received, a router mounted under a
\* prefix the path its parent saw without the prefix and the URL made of
\* that path and the query, a router mounted without path what its parent
\* saw.
seesRequestAt(n) ==
    IF n = 1
    THEN /\ ex.req.url = receivedUrl
         /\ ex.req.path = normalizePath(rawPathname(receivedUrl))
    ELSE LET mounted == enteredThrough(n)
         IN  IF mounted.path = undefined
             THEN seesRequestAt(n - 1)
             ELSE /\ isStrippedOf(ex.req.path, mounted.path,
                                  ex.frames[n - 1].pathname)
                  /\ ex.req.url = ex.req.path \o receivedQuery

\* C11: while a mounted child handles the request it sees request.path and
\* request.url with the mount prefix stripped; once its handle() has
\* completed, with or without an error, request.path and request.url are
\* again what the router that delegated saw (the original values, at the
\* application's router).
C11_PathStrippedAndRestored ==
    Len(ex.frames) > 0 => seesRequestAt(deepestPending)

\* A child mounted under a prefix raised an error, its handling completed
\* and the request carries the URL received again.
C11_Witness ==
    /\ Len(ex.frames) >= 2
    /\ enteredThrough(2).path # undefined
    /\ ex.frames[2].M.st = "resolved"
    /\ \E k \in 1..Len(callsOf(ex.frames[2])) : raised(callsOf(ex.frames[2])[k])
    /\ ex.frames[2].pathname # ex.frames[1].pathname
    /\ ex.req.url = receivedUrl
    /\ ex.req.path = ex.frames[1].pathname

RECURSIVE treeMatches(_, _, _, _)
\* Some route of router r, or of a router mounted below it, matches the
\* method and the path: the pattern of a route of r matches the path, or a
\* router mounted without path matches it, or a router mounted under a
\* prefix of the path matches what follows the prefix.
treeMatches(rs, r, method, path) ==
    \/ matchingRoutes(rs[r], method, path) # {}
    \/ \E i \in 1..Len(rs[r].mountedRouters) :
          LET mounted == rs[r].mountedRouters[i]
          IN  IF mounted.path = undefined
              THEN treeMatches(rs, mounted.router, method, path)
              ELSE \/ /\ path = mounted.path
                      /\ treeMatches(rs, mounted.router, method, <<"/">>)
                   \/ /\ startsWith(path, mounted.path \o <<"/">>)
                      /\ treeMatches(rs, mounted.router, method,
                                     sliceFrom(path, Len(mounted.path)))

\* The routes of the router with this method and exactly this path.
exactRoutes(router, method, path) ==
    { i \in 1..Len(router.routes) :
        router.routes[i].method = method /\ router.routes[i].path = path }

\* C12: when no route of the mount tree matches the method and the path,
\* no route middleware and no handler is invoked and an exchange that
\* completes without error and without a middleware answering is answered
\* 404 'Not Found'; when a router that looks for a route has one
\* registered with exactly the method and the path, that route is chosen
\* and, its middlewares having called next(), its handler is invoked.
C12_NotFoundOrExactRoute ==
    Len(ex.frames) > 0 =>
        /\ ~treeMatches(routers, "app", ex.req.method, ex.frames[1].pathname)
           => /\ \A n \in 1..Len(ex.frames) :
                    ex.frames[n].h = NoCall /\ ex.frames[n].r = <<>>
              /\ ( /\ ex.pc = "done"
                   /\ nothingSentByHandlers
                   /\ \A n \in 1..Len(ex.frames) :
                         \A k \in 1..Len(ex.frames[n].g) : ~raised(ex.frames[n].g[k]) )
                 => ex.res.sent = [status |-> 404, body |-> "Not Found"]
        /\ \A n \in 1..Len(ex.frames) :
              LET f == ex.frames[n]
                  exact == exactRoutes(routers[f.router], ex.req.method, f.pathname)
              IN  (f.stage # "mw" /\ exact # {})
                  => /\ f.stage = "route"
                     /\ \E i \in exact : f.route = routers[f.router].routes[i]
                     /\ ( /\ Len(f.r) = Len(f.route.middlewares)
                          /\ \A k \in 1..Len(f.r) : f.r[k].call = "next"
                          /\ ex.next # "runNext" )
                        => f.h # NoCall /\ f.h.id = f.route.handler

\* A request that no route of a tree with a mounted child matches was
\* answered 404 by the child it was handed to.
C12_Witness ==
    /\ Len(ex.frames) = 2
    /\ ~treeMatches(routers, "app", ex.req.method, ex.frames[1].pathname)
    /\ Len(routers["child"].routes) > 0
    /\ ex.pc = "done"
    /\ ex.res.sent = [status |-> 404, body |-> "Not Found"]

-----------------------------------------------------------------------------
(* Fallback responses and synchronous exceptions.                           *)

\* C13: the 404 and 500 fallbacks are not written to a response that is
\* already finalized: where executeRoute took the 404 fallback the response
\* the client got is that 404, and the status of a finalized response is
\* never set again.
C13_FallbacksGuardedBySentCheck ==
    /\ \A n \in 1..Len(ex.frames) :
          ex.frames[n].stage = "notfound" => ex.res.by = <<"notFound">>
    /\ ex.res.headersSent => ex.res.statusCode = ex.res.sent.status

\* C14: a middleware or handler (global or of a route) that throws is
\* treated as one that calls next(error): in both cases nothing is
\* started after it, handle() completes, and the response is the 500
\* 'Internal Server Error' of the router's error handling unless a response
\* had been sent before.
C14_ThrowTreatedAsNextError ==
    \A n \in 1..Len(ex.frames) :
       \A k \in 1..Len(callsOf(ex.frames[n])) :
          LET c == callsOf(ex.frames[n])[k]
          IN  (c.result = "threw" \/ c.call = "err")
              => /\ started[Len(started)] = c.id
                 /\ ex.pc = "done"
                 /\ ex.res.headersSent
                 /\ nothingSentByHandlers
                    => /\ ex.res.sent = [status |-> 500,
                                         body |-> "Internal Server Error"]
                       /\ ex.res.by = <<"handleError">>

\* The handler of a route without middlewares threw, after a global
\* middleware had passed, and the client got the 500.
C14_Witness ==
    /\ Len(ex.frames) = 1
    /\ Len(ex.frames[1].g) >= 1
    /\ ex.frames[1].stage = "route"
    /\ ex.frames[1].route.middlewares = <<>>
    /\ ex.frames[1].h.result = "threw"
    /\ ex.res.by = <<"handleError">>

-----------------------------------------------------------------------------
(* Middleware applicability specification: middleware is registered on the  *)
(* application's router and requests are taken through handle() up to the   *)
(* choice of the applicable middleware (which fills the per-path cache).    *)

\* Largest number of middleware registered.
MaxApplicableMiddlewares == 3

ApplicablePaths ==
    { undefined,
      <<"/">>,
      <<"/", "a">>,
      <<"/", "a", "/">>,
      <<"/", "a", "/", "b">> }

ApplicableUrls ==
    { <<"/">>,
      <<"/", "a">>,
      <<"/", "a", "/">>,
      <<"/", "a", "/", "b">>,
      <<"/", "a", "b">>,
      <<"/", "x">>,
      <<"/", "a", "?", "k", "=", "1">> }

InitApplicable ==
    /\ routers = InitRouters
    /\ lookup = NoLookup
    /\ ex = NoExchange
    /\ app = NewApp

\* app.use(handler) / app.use(path, handler)
ApplicableUse ==
    /\ Len(routers["app"].middlewares) < MaxApplicableMiddlewares
    /\ \E path \in ApplicablePaths :
          LET id == <<"app", "g", Len(routers["app"].middlewares) + 1>>
          IN  routers' = [routers EXCEPT !["app"] =
                  IF path = undefined THEN useMiddleware(@, id)
                  ELSE usePathMiddleware(@, path, id)]
    /\ lookup' = NoLookup
    /\ UNCHANGED <<ex, app>>

\* handle(req, res) up to the middleware executeMiddleware is going to run.
ApplicableRequest ==
    /\ \E url \in ApplicableUrls :
          LET hs == handleStart(routers, "app", [NoRequest EXCEPT !.method = "GET",
                                                                  !.url = url])
          IN  /\ lookup' = [done |-> TRUE, url |-> url, path |-> hs.req.path,
                            applied |-> hs.frame.A]
              /\ routers' = hs.rs
    /\ UNCHANGED <<ex, app>>

NextApplicable == ApplicableUse \/ ApplicableRequest

SpecApplicable == InitApplicable /\ [][NextApplicable]_vars

\* prefix is a plain string prefix of s.
isStringPrefix(prefix, s) == \E n \in 0..Len(s) : SubSeq(s, 1, n) = prefix

\* C15: the middleware applied to a request is, in registration order,
\* every entry registered without path and every entry whose path is a
\* string prefix of the normalized request path, and nothing else.
C15_AppliedMiddlewareIsPrefixSubset ==
    lookup.done =>
        LET registered == routers["app"].middlewares
            pathname == normalizePath(rawPathname(lookup.url))
            entitled == { i \in 1..Len(registered) :
                            \/ registered[i].path = undefined
                            \/ isStringPrefix(registered[i].path, pathname) }
        IN  /\ Len(lookup.applied) = Cardinality(entitled)
            /\ \A i \in entitled : \E k \in 1..Len(lookup.applied) :
                  lookup.applied[k] = registered[i].handler
            /\ \A k, l \in 1..Len(lookup.applied) :
                  k < l => \E i, j \in entitled :
                              /\ i < j
                              /\ lookup.applied[k] = registered[i].handler
                              /\ lookup.applied[l] = registered[j].handler

\* Of three registered middleware a path-less one and one registered for
\* a prefix of the path apply, and one registered for another path does not.
C15_Witness ==
    /\ lookup.done
    /\ Len(routers["app"].middlewares) = 3
    /\ Len(lookup.applied) = 2
    /\ \E i, j, k \in 1..3 :
          /\ routers["app"].middlewares[i].path = undefined
          /\ routers["app"].middlewares[j].path = <<"/", "a">>
          /\ routers["app"].middlewares[k].path = <<"/", "a", "/", "b">>
    /\ lookup.path = <<"/", "a", "b">>

-----------------------------------------------------------------------------
(* Base prefix specification: the application's router is constructed with  *)
(* a prefix and routes, middleware and mounts are registered on it.         *)

\* Largest number of registrations (routes, middleware and mounts together).
MaxPrefixRegistrations == 3

\* The prefix option given to the constructor.
PrefixOptions == { <<"/", "v">>, <<"v", "/">>, <<"/", "v", "/", "/">>, <<"/">> }

PrefixedPaths ==
    { <<"/">>, <<"/", "p">>, <<"p", "/">>, <<"/", "p", "/", ":", "i">> }

registrations(router) ==
    Len(router.routes) + Len(router.middlewares) + Len(router.mountedRouters)

\* new RouterCore({ prefix })
InitPrefix ==
    /\ \E prefix \in PrefixOptions :
          routers = [r \in RouterIds |->
                        IF r = "app" THEN NewRouterCore(prefix)
                        ELSE NewRouterCore(undefined)]
    /\ lookup = NoLookup
    /\ ex = NoExchange
    /\ app = NewApp

\* router.get(path, handler)
PrefixAddRoute ==
    /\ registrations(routers["app"]) < MaxPrefixRegistrations
    /\ \E path \in PrefixedPaths :
          routers' = [routers EXCEPT !["app"] =
              addRoute(@, "GET", path, <<"app", "h", Len(@.routes) + 1>>, <<>>)]
    /\ UNCHANGED <<lookup, ex, app>>

\* router.use(path, handler) / router.use(handler)
PrefixUseMiddleware ==
    /\ registrations(routers["app"]) < MaxPrefixRegistrations
    /\ \E path \in PrefixedPaths \cup {undefined} :
          LET id == <<"app", "g", Len(routers["app"].middlewares) + 1>>
          IN  routers' = [routers EXCEPT !["app"] =
                  IF path = undefined THEN useMiddleware(@, id)
                  ELSE usePathMiddleware(@, path, id)]
    /\ UNCHANGED <<lookup, ex, app>>

\* router.use(path, child): the child is mounted with an explicit path.
PrefixUseRouterAt ==
    /\ registrations(routers["app"]) < MaxPrefixRegistrations
    /\ ~isMounted(routers, "app", "child")
    /\ \E path \in PrefixedPaths :
          routers' = [routers EXCEPT !["app"] = useRouter(@, path, "child")]
    /\ UNCHANGED <<lookup, ex, app>>

\* router.use(grand): the grandchild is mounted without path.
PrefixUseRouter ==
    /\ registrations(routers["app"]) < MaxPrefixRegistrations
    /\ ~isMounted(routers, "app", "grand")
    /\ routers' = [routers EXCEPT !["app"] = useRouter(@, undefined, "grand")]
    /\ UNCHANGED <<lookup, ex, app>>

NextPrefix ==
    \/ PrefixAddRoute
    \/ PrefixUseMiddleware
    \/ PrefixUseRouterAt
    \/ PrefixUseRouter

SpecPrefix == InitPrefix /\ [][NextPrefix]_vars

\* C16: on a router constructed with a base prefix every route path,
\* every path of a path-scoped middleware and every mount path starts with
\* the normalized prefix, and a router mounted without path is mounted at
\* the prefix itself.
C16_RegisteredPathsCarryPrefix ==
    LET router == routers["app"]
        prefix == router.basePrefix
    IN  prefix # undefined =>
            /\ \A i \in 1..Len(router.routes) :
                  isStringPrefix(prefix, router.routes[i].path)
            /\ \A i \in 1..Len(router.middlewares) :
                  router.middlewares[i].path # undefined
                  => isStringPrefix(prefix, router.middlewares[i].path)
            /\ \A i \in 1..Len(router.mountedRouters) :
                  /\ router.mountedRouters[i].path # undefined
                  /\ isStringPrefix(prefix, router.mountedRouters[i].path)
                  /\ router.mountedRouters[i].router = "grand"
                     => router.mountedRouters[i].path = prefix

\* On a router with prefix '/v' a route, a router with a path and a router
\* without path have been registered.
C16_Witness ==
    /\ routers["app"].basePrefix = <<"/", "v">>
    /\ Len(routers["app"].routes) = 1
    /\ routers["app"].routes[1].path = <<"/", "v", "/", "p">>
    /\ isMounted(routers, "app", "child")
    /\ isMounted(routers, "app", "grand")

-----------------------------------------------------------------------------
(* getRoutes on the mount chain app -> child -> grand.                      *)

\* The path under which parent mounted child, empty for a mount without
\* path.
mountPrefix(rs, parent, child) ==
    LET i == CHOOSE i \in 1..Len(rs[parent].mountedRouters) :
                 rs[parent].mountedRouters[i].router = child
        path == rs[parent].mountedRouters[i].path
    IN  IF path = undefined THEN <<>> ELSE path

\* The routes listed with prefix prepended to their paths.
prefixedBy(prefix, routes) ==
    [i \in 1..Len(routes) |->
        [routes[i] EXCEPT !.path = normalizePath(prefix \o routes[i].path)]]

\* What getRoutes is to return for the i-th router of the chain: its own
\* routes, then those of the routers mounted below it, each with the mount
\* prefixes between them prepended.
listedRoutes(rs, chain, i, prefix) ==
    LET RECURSIVE below(_, _)
        below(j, pre) ==
            IF j > Len(chain) \/ ~isMounted(rs, chain[j - 1], chain[j]) THEN <<>>
            ELSE LET p == pre \o mountPrefix(rs, chain[j - 1], chain[j])
                 IN  prefixedBy(p, rs[chain[j]].routes) \o below(j + 1, p)
    IN  rs[chain[i]].routes \o below(i + 1, prefix)

MountChain == <<"app", "child", "grand">>

\* C17: getRoutes() of a router lists its own routes first and then,
\* recursively, the routes of the routers mounted on it, each with the mount
\* prefixes along its chain prepended to its path.
C17_GetRoutesListsTreeWithPrefixes ==
    \A i \in 1..Len(MountChain) :
        getRoutes(routers, MountChain[i]) = listedRoutes(routers, MountChain, i, <<>>)

\* A route of the grandchild is listed by the application's router under
\* both mount prefixes, after a route of the child.
C17_Witness ==
    /\ isMounted(routers, "app", "child")
    /\ isMounted(routers, "child", "grand")
    /\ mountPrefix(routers, "app", "child") = <<"/", "v">>
    /\ mountPrefix(routers, "child", "grand") = <<"/", "v">>
    /\ Len(routers["child"].routes) = 1
    /\ Len(routers["grand"].routes) = 1
    /\ getRoutes(routers, "app")[2].path
          = <<"/", "v", "/", "v">> \o routers["grand"].routes[1].path

-----------------------------------------------------------------------------
(* PathUtils specification: normalizePath or parseQuery is applied once to  *)
(* any string over a small alphabet up to a given length.                   *)

\* Longest input of normalizePath.
MaxPathLen == 4

\* Longest text following the leading '/' of a URL given to parseQuery.
MaxQueryLen == 6

PathAlphabet == {"/", "a"}

QueryAlphabet == {"?", "&", "=", "a", "b"}

\* The strings over alphabet of length at most n.
Strings(alphabet, n) == UNION { [1..k -> alphabet] : k \in 0..n }

InitPathUtils ==
    /\ routers = InitRouters
    /\ lookup = NoLookup
    /\ ex = NoExchange
    /\ app = NewApp

\* PathUtils.normalizePath(input), and normalizePath of its result.
NormalizePath ==
    /\ ~lookup.done
    /\ \E input \in Strings(PathAlphabet, MaxPathLen) :
          lookup' = [done |-> TRUE, op |-> "normalizePath", input |-> input,
                     result |-> normalizePath(input),
                     again |-> normalizePath(normalizePath(input))]
    /\ UNCHANGED <<routers, ex, app>>

\* PathUtils.parseQuery(url)
ParseQuery ==
    /\ ~lookup.done
    /\ \E text \in Strings(QueryAlphabet, MaxQueryLen) :
          lookup' = [done |-> TRUE, op |-> "parseQuery", input |-> <<"/">> \o text,
                     result |-> parseQuery(<<"/">> \o text)]
    /\ UNCHANGED <<routers, ex, app>>

NextPathUtils == NormalizePath \/ ParseQuery

SpecPathUtils == InitPathUtils /\ [][NextPathUtils]_vars

\* C18: normalizePath(normalizePath(x)) = normalizePath(x) for every
\* string x.
C18_NormalizePathIdempotent ==
    (lookup.done /\ lookup.op = "normalizePath") => lookup.again = lookup.result

\* The key of a pair: the text before its first '=', the whole pair when
\* it has none.
pairKey(pair) ==
    IF includes(pair, "=") THEN SubSeq(pair, 1, IndexOf(pair, "=") - 1) ELSE pair

\* The value of a pair: the text after its first '=', empty when it has
\* none.
pairValue(pair) ==
    IF includes(pair, "=") THEN SubSeq(pair, IndexOf(pair, "=") + 1, Len(pair))
    ELSE <<>>

\* The mapping a URL stands for: the text after the first '?' is cut at
\* every '&' into pairs, each pair with a key maps its key to its value, and
\* of the pairs with the same key the last one counts.
queryMapping(url) ==
    LET text == IF includes(url, "?")
                THEN SubSeq(url, IndexOf(url, "?") + 1, Len(url)) ELSE <<>>
        pairs == split(text, "&")
        keyed == { i \in 1..Len(pairs) : pairKey(pairs[i]) # <<>> }
        last(key) == CHOOSE i \in keyed :
                        /\ pairKey(pairs[i]) = key
                        /\ \A j \in keyed : pairKey(pairs[j]) = key => j <= i
    IN  [key \in { pairKey(pairs[i]) : i \in keyed } |-> pairValue(pairs[last(key)])]

\* C19: parseQuery(url) is the mapping of the pairs after the first '?':
\* split on '&', each pair split on its first '=', a pair without '='
\* mapped to the empty string, a later duplicate overwriting an earlier one,
\* and the empty mapping for a URL without '?' or with nothing after it.
C19_ParseQueryMapsPairs ==
    (lookup.done /\ lookup.op = "parseQuery") =>
        /\ lookup.result.ok
        /\ lookup.result.value = queryMapping(lookup.input)

\* A key given twice, the second time without '=', maps to the empty
\* string.
C19_Witness ==
    /\ lookup.done
    /\ lookup.op = "parseQuery"
    /\ lookup.input = <<"/", "?", "a", "=", "b", "&", "a">>
    /\ lookup.result.value = MapPut(EmptyMap, <<"a">>, <<>>)

-----------------------------------------------------------------------------
(* Concurrent specification: two exchanges on the application's router.     *)
(* JavaScript runs one exchange at a time and can change to the other one   *)
(* only when the stack is empty, that is where the running exchange waits   *)
(* for an async middleware or handler, has stalled or is over.  ex is the   *)
(* exchange on the thread and lookup the one that waits; the routers (with  *)
(* their routes, trie and middleware cache) and the application are the     *)
(* objects both exchanges use.                                              *)

\* Largest number of middleware registered on the application.
MaxConcurrentMiddlewares == 1

\* Largest number of routes registered on the application.
MaxConcurrentRoutes == 1

\* Largest number of middleware registered with the route.
MaxConcurrentRouteMiddlewares == 1

ConcurrentMiddlewarePaths == { undefined, <<"/", "a">> }

ConcurrentRoutePaths == { <<"/", "a", "/", ":", "i">> }

\* Two requests of the same route with different parameters, one of them
\* un-normalized and with a query, and a request no route matches.
ConcurrentUrls ==
    { <<"/", "a", "/", "7">>,
      <<"/", "a", "/", "8", "/", "?", "k", "=", "1">>,
      <<"/", "x">> }

InitConcurrent ==
    /\ routers = InitRouters
    /\ lookup = NoExchange
    /\ ex = NoExchange
    /\ app = NewApp

\* app.use(handler) / app.use(path, handler), before the server listens.
ConcurrentUse ==
    /\ ex.pc = "idle"
    /\ lookup.pc = "idle"
    /\ Len(routers["app"].middlewares) < MaxConcurrentMiddlewares
    /\ \E path \in ConcurrentMiddlewarePaths :
          LET id == <<"app", "g", Len(routers["app"].middlewares) + 1>>
          IN  routers' = [routers EXCEPT !["app"] =
                  IF path = undefined THEN useMiddleware(@, id)
                  ELSE usePathMiddleware(@, path, id)]
    /\ UNCHANGED <<lookup, ex, app>>

\* app.get(path, ...middlewares, handler), before the server listens.
ConcurrentAddRoute ==
    /\ ex.pc = "idle"
    /\ lookup.pc = "idle"
    /\ Len(routers["app"].routes) < MaxConcurrentRoutes
    /\ \E path \in ConcurrentRoutePaths, n \in 0..MaxConcurrentRouteMiddlewares :
          LET k == Len(routers["app"].routes) + 1
          IN  routers' = [routers EXCEPT !["app"] =
                  addRoute(@, "GET", path, <<"app", "h", k>>,
                           [j \in 1..n |-> <<"app", "m", k, j>>])]
    /\ UNCHANGED <<lookup, ex, app>>

\* The request callback for a request without body, entered while the
\* thread runs no exchange; the URL received is the first entry of the log.
ConcurrentReceive ==
    /\ ex.pc = "idle"
    /\ \E url \in ConcurrentUrls :
          EnterHandle([NoExchange EXCEPT
              !.req = [NoRequest EXCEPT !.method = "GET", !.url = url,
                                        !.path = rawPathname(url),
                                        !.body = "json"],
              !.log = <<[e |-> "receive", id |-> url]>>])
    /\ UNCHANGED lookup

\* The event loop turns to the other exchange: the stack is empty.
Switch ==
    /\ ex.next = "none"
    /\ ex # lookup
    /\ ex' = lookup
    /\ lookup' = ex
    /\ UNCHANGED <<routers, app>>

NextConcurrent ==
    \/ ConcurrentUse
    \/ ConcurrentAddRoute
    \/ ConcurrentReceive
    \/ Switch
    \/ InvokeGlobal
    \/ ExecuteRoute
    \/ InvokeRouteMiddleware
    \/ InvokeHandler
    \/ ContinueGlobal
    \/ ContinueRouteMiddleware
    \/ ContinueHandler

SpecConcurrent == InitConcurrent /\ [][NextConcurrent]_vars

\* The identities of the handlers exchange e has started, in order.
startedBy(e) ==
    LET starts == SelectSeq(e.log, LAMBDA x : x.e = "start")
    IN  [i \in 1..Len(starts) |-> starts[i].id]

\* Exchange e is what its own request, the registrations and the choices
\* of its own handlers make it: path, query and parameters are those of its
\* own URL, the handlers started are the beginning of the sequence
\* the registrations prescribe for that URL, and the response is the one its
\* own handlers or fallbacks sent.
runsAsAlone(e) ==
    Len(e.frames) > 0 =>
        LET f        == e.frames[1]
            url      == e.log[1].id
            pathname == normalizePath(rawPathname(url))
            alone    == [routers["app"] EXCEPT !.middlewareCache = EmptyMap]
            local    == resolveLocal(alone, "GET", pathname)
            expected == getApplicableMiddleware(alone, pathname).applicable
                        \o (IF local.route = NoRoute THEN <<>>
                            ELSE local.route.middlewares \o <<local.route.handler>>)
        IN  /\ Len(e.frames) = 1
            /\ f.pathname = pathname
            /\ e.req.url = url
            /\ e.req.path = pathname
            /\ e.req.query = parseQuery(url).value
            /\ f.A = getApplicableMiddleware(alone, pathname).applicable
            /\ f.stage = "route" => /\ f.route = local.route
                                    /\ e.req.params = local.params
            /\ f.stage = "notfound" => local.route = NoRoute
            /\ f.stage = "mw" => e.req.params = EmptyMap
            /\ Len(startedBy(e)) <= Len(expected)
            /\ startedBy(e) = SubSeq(expected, 1, Len(startedBy(e)))
            /\ \A k \in 1..Len(callsOf(f)) : callsOf(f)[k].id = expected[k]
            /\ (\E i \in 1..Len(e.log) : e.log[i].e = "send") => e.res.headersSent
            /\ e.res.headersSent =>
                  \/ \E i \in 1..Len(e.log) :
                        e.log[i] = [e |-> "send", id |-> e.res.by]
                  \/ e.res.by = <<"notFound">> /\ f.stage = "notfound"
                  \/ /\ e.res.by = <<"handleError">>
                     /\ \E k \in 1..Len(callsOf(f)) : raised(callsOf(f)[k])

\* Exchange e waits for a middleware that returned without calling next().
stalledExchange(e) ==
    /\ e.pc = "running"
    /\ e.next = "none"
    /\ Len(e.frames) = 1
    /\ \E k \in 1..Len(callsOf(e.frames[1])) : callsOf(e.frames[1])[k].b = "stall"

\* The call exchange e is about to make can be made: runMiddleware() has a
\* middleware to invoke or the route to execute, runNext() a route
\* middleware or the handler.
canStep(e) ==
    LET f == e.frames[Len(e.frames)]
    IN  \/ /\ e.next = "runMiddleware"
           /\ f.stage = "mw"
           /\ Len(f.g) <= Len(f.A)
        \/ /\ e.next = "runNext"
           /\ f.stage = "route"
           /\ f.h = NoCall
           /\ Len(f.r) <= Len(f.route.middlewares)

\* C20: two exchanges interleaved at their suspension points are
\* independent: each one sees the path, query and parameters of its own
\* request, invokes the middleware and handler sequence the registrations
\* prescribe for its own request and gets the response its own handlers or
\* fallbacks sent, whatever the other one did in between; an exchange that
\* waits for a middleware that never calls next() does not keep the other
\* one from taking its next step.
C20_ConcurrentExchangesIndependent ==
    /\ runsAsAlone(ex)
    /\ runsAsAlone(lookup)
    /\ (stalledExchange(lookup) /\ ex.pc = "running" /\ ex.next # "none")
          => canStep(ex)

\* Of two requests of the same route, the one for /a/7 has passed the
\* global middleware and waits for a route middleware that never calls
\* next(); the one for /a/8 arrived after it, passed the same middleware
\* and was answered by the route handler.
C20_Witness ==
    /\ stalledExchange(lookup)
    /\ lookup.log[1].id = <<"/", "a", "/", "7">>
    /\ lookup.req.params = MapPut(EmptyMap, <<"i">>, <<"7">>)
    /\ Len(lookup.frames[1].g) = 1
    /\ Len(lookup.frames[1].r) = 1
    /\ lookup.frames[1].r[1].b = "stall"
    /\ ~lookup.res.headersSent
    /\ Len(ex.frames) = 1
    /\ ex.log[1].id = <<"/", "a", "/", "8", "/", "?", "k", "=", "1">>
    /\ ex.req.params = MapPut(EmptyMap, <<"i">>, <<"8">>)
    /\ ex.req.query = MapPut(EmptyMap, <<"k">>, <<"1">>)
    /\ startedBy(ex) = <<<<"app", "g", 1>>, <<"app", "m", 1, 1>>, <<"app", "h", 1>>>>
    /\ ex.res.headersSent
    /\ ex.res.by = <<"app", "h", 1>>
    /\ ex.res.sent.status = 200

-----------------------------------------------------------------------------
(* Properties of the route table (SpecLookup) that compare the exact-match  *)
(* table with the trie.                                                     *)

\* C21: the exact-match table is a pure optimisation: for every set of
\* registered routes and every request path without pattern characters, the
\* route and the params chosen by executeRoute (table first, then trie) are
\* the ones searchRoute alone returns.
C21_ExactMatchIsPureOptimisation ==
    (lookup.done /\ plainRequest(lookup.path)) =>
        LET trieResult == searchRoute(routers["app"].trie, lookup.method, lookup.path)
        IN  /\ lookup.res.route = trieResult.route
            /\ lookup.res.params = trieResult.params

\* C22: whatever routes are registered and in whatever order, when a
\* request resolves to a route with `:name` segments, the names bound in
\* params are exactly the paramNames of that route, each bound to the path
\* segment at the position of its `:name` segment.
C22_ParamsAreTheRoutesOwnNames ==
    ( /\ lookup.done
      /\ plainRequest(lookup.path)
      /\ lookup.res.route # NoRoute
      /\ lookup.res.route.paramNames # <<>> ) =>
        LET route == lookup.res.route
            ps == segmentsOf(route.path)
            qs == segmentsOf(lookup.path)
            names == { route.paramNames[k] : k \in 1..Len(route.paramNames) }
        IN  /\ (DOMAIN lookup.res.params) \ {<<"*">>} = names
            /\ \A k \in 1..Len(ps) :
                  isParamSegment(ps[k]) =>
                      /\ Tail(ps[k]) \in DOMAIN lookup.res.params
                      /\ lookup.res.params[Tail(ps[k])] = qs[k]

-----------------------------------------------------------------------------
(* Router specification: the Router class of routing/router.ts, which keeps *)
(* the middleware list and the per-path cache itself.  Middleware is        *)
(* registered and requests are handled up to the choice of the applicable   *)
(* middleware, in any order.                                                *)

\* Largest number of middleware registered on the Router.
MaxRouterMiddlewares == 3

RouterMiddlewarePaths == { undefined, <<"/", "a">>, <<"/", "a", "/", "b">> }

RouterUrls ==
    { <<"/", "a">>,
      <<"/", "a", "/", "b">>,
      <<"/", "a", "/", "?", "k", "=", "1">>,
      <<"/", "x">> }

\* Router.use(handler) / Router.use(path, handler): the entry is pushed on
\* the list; the cache is left as it is.
routerUse(router, path, handler) ==
    [router EXCEPT !.middlewares =
        Append(@, [path |-> IF path # undefined THEN normalizePath(path)
                            ELSE undefined,
                   handler |-> handler])]

RouterUse ==
    /\ Len(routers["app"].middlewares) < MaxRouterMiddlewares
    /\ \E path \in RouterMiddlewarePaths :
          routers' = [routers EXCEPT !["app"] =
              routerUse(@, path, <<"app", "g", Len(@.middlewares) + 1>>)]
    /\ lookup' = NoLookup
    /\ UNCHANGED <<ex, app>>

\* Router.handle up to `const applicableMiddleware = ...`.
RouterRequest ==
    /\ \E url \in RouterUrls :
          LET pathname == normalizePath(rawPathname(url))
              found == getApplicableMiddleware(routers["app"], pathname)
          IN  /\ lookup' = [done |-> TRUE, url |-> url, path |-> pathname,
                            applied |-> found.applicable]
              /\ routers' = [routers EXCEPT !["app"].middlewareCache = found.cache]
    /\ UNCHANGED <<ex, app>>

NextRouter == RouterUse \/ RouterRequest

SpecRouter == InitApplicable /\ [][NextRouter]_vars

\* C23: after any sequence of middleware registrations and requests, the
\* middleware applied to a request for path p is the applicable subset, in
\* registration order, of the entries registered at that moment; a
\* middleware registered after p was first handled applies to the later
\* requests for p.
C23_RegistrationInvalidatesCache ==
    lookup.done =>
        LET entitled == SelectSeq(routers["app"].middlewares,
                            LAMBDA m : \/ m.path = undefined
                                       \/ isStringPrefix(m.path, lookup.path))
        IN  lookup.applied = [i \in 1..Len(entitled) |-> entitled[i].handler]

-----------------------------------------------------------------------------
(* Properties of the exchange specification about the routers' own state.   *)

\* The structures of router r that registrations build.
sharedStructures(r) ==
    [routes          |-> routers[r].routes,
     middlewares     |-> routers[r].middlewares,
     mountedRouters  |-> routers[r].mountedRouters,
     routeMap        |-> routers[r].routeMap,
     trie            |-> routers[r].trie,
     middlewareCache |-> routers[r].middlewareCache]

\* C24: handling a request never changes the shared structures of a router:
\* every step of an exchange (a step that changes the exchange) leaves the
\* route list, middleware list, mount list, exact-match table, trie and
\* middleware cache of every router as they were.
C24_HandlingLeavesRoutersUnchanged ==
    [][ex' # ex => \A r \in RouterIds : sharedStructures(r)' = sharedStructures(r)]_vars

-----------------------------------------------------------------------------
(* Sibling mounts specification: the child and the grandchild are both      *)
(* mounted on the application's router, in either order, with or without a  *)
(* prefix.                                                                  *)

SiblingPairs == { <<"app", "child">>, <<"app", "grand">> }

\* app.use(path, router) / app.use(router)
SiblingUseRouter ==
    /\ \E pair \in SiblingPairs, path \in MountPaths :
          /\ ~isMounted(routers, pair[1], pair[2])
          /\ routers' = [routers EXCEPT ![pair[1]] = useRouter(@, path, pair[2])]
    /\ UNCHANGED <<ex, app>>
    /\ lookup' = NoLookup

NextSiblings == MountAddRoute \/ SiblingUseRouter \/ MountRequest

SpecSiblings == InitLookup /\ [][NextSiblings]_vars

\* The router mounted at index i of the application's router is eligible
\* for the path and resolves it (prefix stripped) to a route.
canSatisfy(i, method, path) ==
    LET mounted == routers["app"].mountedRouters[i]
    IN  IF mounted.path = undefined
        THEN resolves(routers, mounted.router, method, path)
        ELSE /\ \/ path = mounted.path
                \/ startsWith(path, mounted.path \o <<"/">>)
             /\ resolves(routers, mounted.router, method,
                         strippedPath(mounted.path, path))

\* C25: mounted children are scanned in registration order and an earlier
\* mount never swallows a request that a later sibling can satisfy: when no
\* local route matches and the first mounted child that owns a matching
\* route is the j-th, the request is handed to the j-th.
C25_EarlierMountNeverSwallows ==
    (lookup.done /\ lookup.res.route = NoRoute) =>
        \A j \in 1..Len(routers["app"].mountedRouters) :
            ( /\ canSatisfy(j, lookup.method, lookup.path)
              /\ \A i \in 1..(j - 1) : ~canSatisfy(i, lookup.method, lookup.path) )
            => lookup.mount = j

-----------------------------------------------------------------------------
(* Validation specification: the middleware returned by validate(schemas)   *)
(* is invoked as the last middleware of a route, either by runNext of       *)
(* RouteExecutor or by runNext of a decorated controller's boundHandler.    *)

\* What a schema does with its request part: there is none, it accepts the
\* part, it accepts it after the coercion retry, it rejects it after the
\* retry (an error with issues), or its parse throws an error without
\* issues.
SchemaOutcomes == {"absent", "accepts", "coerced", "rejects", "throws"}

RequestParts == <<"params", "query", "body">>

\* Who gave validate its next: RouteExecutor.executeRouteWithMiddlewares or
\* the boundHandler of registerDecoratedControllers.
ValidateCallers == {"routeExecutor", "boundHandler"}

\* What the handler behind the middleware does when it is invoked.
ValidatedHandlerBehaviours == {"send", "throw", "asyncReject"}

\* The schema of the part parses after at most one retry.
partPasses(outcome) == outcome \in {"absent", "accepts", "coerced"}

\* next() as validate sees it: the handler is invoked before next returns.
\* runNext of RouteExecutor calls it inside try/catch and rejects the
\* promise of the route; runNext of boundHandler calls run() unprotected, so
\* what the handler throws leaves next().
callNext(caller, b, res) ==
    [res   |-> IF b = "send" THEN resSend(res, "ok", <<"ctrl", "h">>) ELSE res,
     threw |-> caller = "boundHandler" /\ b = "throw"]

\* The handler returned by validate(schemas), invoked with a response
\* nothing was written to: the response afterwards and the calls of next.
validate(schemas, caller, b) ==
    IF \E k \in 1..Len(RequestParts) : ~partPasses(schemas[RequestParts[k]])
    THEN [res |-> resSend(resStatus(NewResponse, 400), "ValidationError",
                          <<"validate">>),
          nextCalls |-> 0]
    ELSE LET n == callNext(caller, b, NewResponse)
         IN  [res |-> IF n.threw
                      THEN resSend(resStatus(n.res, 400), "ValidationError",
                                   <<"validate">>)
                      ELSE n.res,
              nextCalls |-> 1]

Validate ==
    /\ ~lookup.done
    /\ \E schemas \in [{"params", "query", "body"} -> SchemaOutcomes],
          caller \in ValidateCallers, b \in ValidatedHandlerBehaviours :
          lookup' = [done |-> TRUE, schemas |-> schemas, caller |-> caller,
                     b |-> b, out |-> validate(schemas, caller, b)]
    /\ UNCHANGED <<routers, ex, app>>

SpecValidate == InitLookup /\ [][Validate]_vars

\* C26: validate(schemas) answers 400 if and only if one of the supplied
\* schemas rejects its request part after the coercion retry, and then
\* never calls next(); otherwise it calls next() exactly once and writes no
\* response itself.
C26_ValidateAnswers400IffSchemaRejects ==
    lookup.done =>
        LET rejected == \E part \in DOMAIN lookup.schemas :
                            ~partPasses(lookup.schemas[part])
            answered == /\ lookup.out.res.headersSent
                        /\ lookup.out.res.by = <<"validate">>
        IN  /\ answered <=> rejected
            /\ answered => lookup.out.res.sent.status = 400
            /\ rejected => lookup.out.nextCalls = 0
            /\ ~rejected => /\ lookup.out.nextCalls = 1
                            /\ lookup.out.res.statusCode = 200

-----------------------------------------------------------------------------
(* Decorated controllers specification: classes are decorated before the    *)
(* server starts, and two requests are served concurrently; a request with  *)
(* a body waits for parseBody before the callback of start() goes on.       *)
(* Here app also holds the registry of decorators.ts (controllerCtors,      *)
(* controllers), the number of times each class was constructed and the     *)
(* calls of registerDecoratedControllers and handle in the order made.      *)

\* The decorated classes: @Controller('/c') with one route each; the route
\* is given with its full path `${basePath}${path}`.
ControllerClasses == {"A", "B"}

ControllerRoute ==
    [A |-> [method |-> "GET",  path |-> <<"/", "c", "/", "x">>],
     B |-> [method |-> "POST", path |-> <<"/", "c", "/", "y">>]]

DecoratedUrls == { <<"/", "c", "/", "x">>, <<"/", "c", "/", "y">> }

InitDecorated ==
    /\ routers = InitRouters
    /\ lookup = NoExchange
    /\ ex = NoExchange
    /\ \E ctors \in { <<>>, <<"A">>, <<"A", "B">> } :
          app = [errorHandlers |-> <<>>,
                 decoratorsRegistered |-> FALSE,
                 controllerCtors |-> ctors,
                 controllers |-> <<>>,
                 constructed |-> [c \in ControllerClasses |-> 0],
                 calls |-> <<>>]

\* getRegisteredControllers: the registry is built on the first call that
\* finds it empty, one `new ctor()` per decorated class.
getRegisteredControllers(a) ==
    IF Len(a.controllers) > 0 THEN a
    ELSE [a EXCEPT
            !.controllers = a.controllerCtors,
            !.constructed = [c \in ControllerClasses |->
                IF \E i \in 1..Len(a.controllerCtors) : a.controllerCtors[i] = c
                THEN @[c] + 1 ELSE @[c]]]

RECURSIVE registerControllersFrom(_, _, _)
\* The loop of registerDecoratedControllers from the i-th controller on:
\* this[method](fullPath, boundHandler, schema).
registerControllersFrom(router, controllers, i) ==
    IF i > Len(controllers) THEN router
    ELSE registerControllersFrom(
            addRoute(router, ControllerRoute[controllers[i]].method,
                     ControllerRoute[controllers[i]].path,
                     <<"ctrl", controllers[i]>>, <<>>),
            controllers, i + 1)

\* The registration block of the callback without the assignment of the
\* flag.
registerOnceUnflagged(a, rs) ==
    LET built == getRegisteredControllers(a)
    IN  [app |-> [built EXCEPT !.calls = Append(@, "register")],
         rs  |-> [rs EXCEPT !["app"] =
                     registerControllersFrom(@, built.controllers, 1)]]

\* `if (!this.decoratorsRegistered) { this.registerDecoratedControllers();
\* this.decoratorsRegistered = true; }`
registerOnce(a, rs) ==
    IF a.decoratorsRegistered THEN [app |-> a, rs |-> rs]
    ELSE LET built == getRegisteredControllers(a)
         IN  [app |-> [built EXCEPT !.decoratorsRegistered = TRUE,
                                    !.calls = Append(@, "register")],
              rs  |-> [rs EXCEPT !["app"] =
                          registerControllersFrom(@, built.controllers, 1)]]

\* The callback of start() after the body: registration, then handle().
DecoratedEnter(e) ==
    LET reg == registerOnce(app, routers)
        hs  == handleStart(reg.rs, "app", e.req)
    IN  /\ app' = [reg.app EXCEPT !.calls = Append(@, "handle")]
        /\ IF hs.ok
           THEN /\ ex' = settled([e EXCEPT !.req = hs.req, !.frames = <<hs.frame>>,
                                           !.pc = "running", !.next = "runMiddleware"])
                /\ routers' = hs.rs
           ELSE /\ ex' = [e EXCEPT !.req = hs.req, !.pc = "globalError",
                                   !.err = PlainError]
                /\ routers' = reg.rs

\* The request callback of createServer.
DecoratedReceive ==
    /\ ex.pc = "idle"
    /\ \E method \in {"GET", "POST"}, url \in DecoratedUrls,
          body \in {"json", "malformed"} :
          LET e == [NoExchange EXCEPT
                      !.req = [NoRequest EXCEPT !.method = method, !.url = url,
                                                !.path = rawPathname(url),
                                                !.body = body]]
          IN  IF method = "POST"
              THEN /\ ex' = [e EXCEPT !.pc = "parseBody"]
                   /\ UNCHANGED <<routers, app>>
              ELSE /\ body = "json"
                   /\ DecoratedEnter(e)
    /\ UNCHANGED lookup

\* parseBody settles.
DecoratedParseBody ==
    /\ ex.pc = "parseBody"
    /\ IF ex.req.body = "malformed"
       THEN /\ ex' = [ex EXCEPT !.pc = "globalError", !.err = PlainError]
            /\ UNCHANGED <<routers, app>>
       ELSE DecoratedEnter(ex)
    /\ UNCHANGED lookup

NextDecorated ==
    \/ DecoratedReceive
    \/ DecoratedParseBody
    \/ Switch
    \/ ExecuteRoute
    \/ InvokeHandler
    \/ ContinueHandler
    \/ HandleGlobalError

SpecDecorated == InitDecorated /\ [][NextDecorated]_vars

\* The number of calls of the given kind made so far.
callCount(kind) == Len(SelectSeq(app.calls, LAMBDA c : c = kind))

\* The routes of the application's router that belong to class c.
routesOfController(c) ==
    { k \in 1..Len(routers["app"].routes) :
        routers["app"].routes[k].handler = <<"ctrl", c>> }

\* C27: decorated controllers are registered on the application exactly
\* once: under any interleaving of two requests, one of which may wait for
\* its body, registerDecoratedControllers runs at most once and before the
\* first handle(), every decorated class has its route registered exactly
\* once from then on, and no class is constructed more than once.
C27_ControllersRegisteredOnce ==
    /\ callCount("register") <= 1
    /\ app.decoratorsRegistered <=> callCount("register") = 1
    /\ Len(app.calls) > 0 => app.calls[1] = "register"
    /\ \A c \in ControllerClasses :
          /\ app.constructed[c] <= 1
          /\ Cardinality(routesOfController(c)) =
                IF /\ app.decoratorsRegistered
                   /\ \E i \in 1..Len(app.controllerCtors) : app.controllerCtors[i] = c
                THEN 1 ELSE 0

\* Two classes are decorated; a POST waited for its body while a GET was
\* received, registered the controllers and was answered by class A; then
\* the POST went on and was answered by the route of class B.
C27_Witness ==
    /\ app.controllerCtors = <<"A", "B">>
    /\ app.calls = <<"register", "handle", "handle">>
    /\ app.constructed = [c \in ControllerClasses |-> 1]
    /\ ex.req.method = "POST"
    /\ ex.res.headersSent
    /\ ex.res.by = <<"ctrl", "B">>
    /\ lookup.req.method = "GET"
    /\ lookup.res.by = <<"ctrl", "A">>

-----------------------------------------------------------------------------
(* Properties of the exchange specification about failures.                 *)

\* handle() of some router has rejected: the callback of start() is in its
\* catch with a request whose body was parsed, or the promise of a handle()
\* call on the stack is rejected.
handleRejected ==
    \/ ex.pc = "globalError" /\ ex.req.body # "malformed"
    \/ \E n \in 1..Len(ex.frames) : ex.frames[n].M.st = "rejected"

\* C28: handle() never rejects or throws to its caller: whatever the URL,
\* the middleware and the handlers do, a failure while the exchange is
\* handled ends in a response sent by the router (500 if none was sent).
C28_HandleNeverRejects ==
    /\ ~handleRejected
    /\ ( /\ ex.pc = "done"
         /\ Len(ex.frames) > 0
         /\ \E k \in 1..Len(callsOf(ex.frames[1])) : raised(callsOf(ex.frames[1])[k]) )
       => ex.res.headersSent

-----------------------------------------------------------------------------
(* Repeated next() specification: one exchange whose middleware may call    *)
(* next() twice, or call next() and then throw.  Everything is synchronous, *)
(* so the exchange is the stack of calls still to be made: runMiddleware()  *)
(* of executeMiddleware, which shares middlewareIndex between all calls of  *)
(* next, and runNext() of one call of executeRouteWithMiddlewares, which    *)
(* shares its index likewise.  Here ex holds the applicable middleware A,   *)
(* middlewareIndex, the index of every route execution started, the stack   *)
(* and the handlers invoked so far.                                         *)

\* What a middleware does: call next() once, call it twice, call it and
\* then throw, or return without calling it.
RepeatBehaviours == {"next", "nextTwice", "nextThrow", "stall"}

RepeatUrls == { <<"/", "a">>, <<"/", "x">> }

NoRepeatExchange ==
    [pc |-> "idle", pathname |-> <<>>, A |-> <<>>, middlewareIndex |-> 0,
     route |-> NoRoute, index |-> <<>>, stack |-> <<>>, invoked |-> <<>>]

InitRepeat ==
    /\ routers = InitRouters
    /\ lookup = NoLookup
    /\ ex = NoRepeatExchange
    /\ app = NewApp

\* The calls of next a middleware makes, as calls of `call` put on the stack.
nextCalls(b, call) ==
    IF b = "nextTwice" THEN <<call, call>>
    ELSE IF b \in {"next", "nextThrow"} THEN <<call>>
    ELSE <<>>

\* handle(req, res) up to the first call of runMiddleware().
RepeatReceive ==
    /\ ex.pc = "idle"
    /\ \E url \in RepeatUrls :
          LET hs == handleStart(routers, "app",
                                [NoRequest EXCEPT !.method = "GET", !.url = url])
          IN  /\ ex' = [ex EXCEPT !.pc = "running", !.pathname = hs.frame.pathname,
                                  !.A = hs.frame.A,
                                  !.stack = <<[call |-> "runMiddleware", of |-> 0]>>]
              /\ routers' = hs.rs
    /\ UNCHANGED <<lookup, app>>

\* runMiddleware(): past the last middleware routeHandler() is called, that
\* is executeRoute, which starts a new execution of the route it finds (the
\* handler itself when the route has no middlewares); otherwise the
\* middleware at middlewareIndex is invoked and the index advanced.
RepeatRunMiddleware ==
    /\ ex.pc = "running"
    /\ Len(ex.stack) > 0
    /\ ex.stack[1].call = "runMiddleware"
    /\ IF ex.middlewareIndex >= Len(ex.A)
       THEN LET local == resolveLocal(routers["app"], "GET", ex.pathname)
            IN  IF local.route = NoRoute
                THEN ex' = [ex EXCEPT !.stack = Tail(@)]
                ELSE IF Len(local.route.middlewares) = 0
                THEN ex' = [ex EXCEPT !.stack = Tail(@),
                                      !.route = local.route,
                                      !.invoked = Append(@, local.route.handler)]
                ELSE ex' = [ex EXCEPT
                        !.route = local.route,
                        !.index = Append(@, 0),
                        !.stack = <<[call |-> "runNext", of |-> Len(ex.index) + 1]>>
                                  \o Tail(@)]
       ELSE \E b \in RepeatBehaviours :
               ex' = [ex EXCEPT
                   !.middlewareIndex = @ + 1,
                   !.invoked = Append(@, ex.A[ex.middlewareIndex + 1]),
                   !.stack = nextCalls(b, [call |-> "runMiddleware", of |-> 0])
                             \o Tail(@)]
    /\ UNCHANGED <<routers, lookup, app>>

\* runNext() of the route execution on top of the stack: past the last
\* middleware the handler is invoked; otherwise the middleware at the index
\* of this execution is invoked and the index advanced.
RepeatRunNext ==
    /\ ex.pc = "running"
    /\ Len(ex.stack) > 0
    /\ ex.stack[1].call = "runNext"
    /\ LET x == ex.stack[1].of
           mws == ex.route.middlewares
       IN  IF ex.index[x] >= Len(mws)
           THEN ex' = [ex EXCEPT !.index[x] = @ + 1,
                                 !.stack = Tail(@),
                                 !.invoked = Append(@, ex.route.handler)]
           ELSE \E b \in RepeatBehaviours :
                   ex' = [ex EXCEPT
                       !.index[x] = @ + 1,
                       !.invoked = Append(@, mws[ex.index[x] + 1]),
                       !.stack = nextCalls(b, [call |-> "runNext", of |-> x])
                                 \o Tail(@)]
    /\ UNCHANGED <<routers, lookup, app>>

NextRepeat ==
    \/ UseMiddleware
    \/ AddRoute
    \/ RepeatReceive
    \/ RepeatRunMiddleware
    \/ RepeatRunNext

SpecRepeat == InitRepeat /\ [][NextRepeat]_vars

\* C29: within one exchange each applicable middleware and the route
\* handler is invoked at most once, even if a middleware calls next() more
\* than once or calls next() and fails afterwards.
C29_EachHandlerInvokedAtMostOnce ==
    \A p, q \in 1..Len(ex.invoked) : p # q => ex.invoked[p] # ex.invoked[q]

-----------------------------------------------------------------------------
(* Property of the route table (SpecLookup) about repeated registrations.   *)

\* C30: when the same method and path pattern is registered more than once,
\* every matching request is served by the first of these registrations,
\* for literal and parameterized patterns alike.  (The handler of a route is
\* the position of its registration.)
C30_FirstRegistrationServes ==
    (lookup.done /\ lookup.res.route # NoRoute) =>
        \A k \in 1..Len(routers["app"].routes) :
            ( /\ routers["app"].routes[k].method = lookup.res.route.method
              /\ routers["app"].routes[k].path = lookup.res.route.path )
            => lookup.res.route.handler <= routers["app"].routes[k].handler

====
